---- MODULE Spec2Model ----
(***************************************************************************)
(* Request-execution core of the HTTP client: the redirect-following       *)
(* RequestFuture (async_impl/client/future.rs) and the blocking bridge     *)
(* (blocking/client/runtime.rs, blocking/client/mod.rs,                    *)
(* blocking/executor.rs), the construction and destruction of the          *)
(* ClientRuntime, the parking executor on its own with a numeric clock,    *)
(* and the message bodies (core/body) with the RequestBuilder holding one. *)
(*                                                                         *)
(* Option<T> is written as a sequence of length at most one:               *)
(*   None = <<>>,  Some(x) = <<x>>.                                        *)
(***************************************************************************)
EXTENDS Integers, Sequences, FiniteSets, TLC

\* the RequestFuture driven directly, and the cookie store of its client
VARIABLES task, jar

\* the blocking bridge: work queue, calling threads, one-shot channels, worker
\* sub-tasks, worker thread, default timeout of the blocking Client
VARIABLES queue, callers, chan, sub, worker, client_timeout

tvars == <<task, jar>>

bvars == <<queue, callers, chan, sub, worker, client_timeout>>

\* construction and destruction of the ClientRuntime: the thread that builds,
\* owns and drops it, and the one-shot channel the worker reports its start on
VARIABLES owner, startup

\* the parking executor driving one future on one thread: the clock, the
\* calling thread, the future
VARIABLES now, exec, fut

rvars == <<owner, startup>>

evars == <<now, exec, fut>>

\* a message body on its own and the RequestBuilder holding one: the Body,
\* what its pulls and clones returned so far, the builder
VARIABLES obj, seen, builder

dvars == <<obj, seen, builder>>

vars == <<task, jar, queue, callers, chan, sub, worker, client_timeout, owner, startup, now, exec, fut,
          obj, seen, builder>>

(***************************************************************************)
(* Bounds                                                                  *)
(***************************************************************************)
\* Largest number of redirects the redirect policy lets one request follow.
MaxHops == 2

\* Last instant of the clock the parking executor reads.
MaxClock == 4

\* Longest timeout of a request or a client followed on that clock.
MaxTimeout == 2

\* Largest number of pulls made on one body.
MaxPulls == 3

\* Client values alive at a time
MaxClients == 2

(***************************************************************************)
(* Values                                                                  *)
(***************************************************************************)
None == <<>>

Some(x) == <<x>>

\* url::Url, reduced to the components the code looks at.
MkUrl(s, h, u, f) == [scheme |-> s, host |-> h, user |-> u, frag |-> f]

NoUrl == MkUrl("-", "-", FALSE, FALSE)

Urls ==
  { MkUrl("https", "a", TRUE, TRUE),
    MkUrl("http", "a", FALSE, FALSE),
    MkUrl("https", "b", FALSE, FALSE) }

\* URLs a request starts at
StartUrls == {MkUrl("https", "a", TRUE, TRUE), MkUrl("http", "a", FALSE, FALSE)}

\* Url::as_str: the serialisation, piece by piece.
as_str(u) ==
  <<u.scheme, "://">>
    \o (IF u.user THEN <<"user:pw@">> ELSE <<>>)
    \o <<u.host, "/">>
    \o (IF u.frag THEN <<"#frag">> ELSE <<>>)

Methods == {"GET", "HEAD", "POST"}

Payloads == {<<7, 8>>}

\* RequestFuture.body : Option<Option<Bytes>>
NoBody == None

ConsumedStream == Some(None)

ReusableBuffer(b) == Some(Some(b))

BodyMarkers == {NoBody, ConsumedStream} \cup {ReusableBuffer(b) : b \in Payloads}

TRANSFER_ENCODING == "transfer-encoding"

CONTENT_ENCODING == "content-encoding"

CONTENT_TYPE == "content-type"

CONTENT_LENGTH == "content-length"

REFERER == "referer"

COOKIE == "cookie"

AUTHORIZATION == "authorization"

LOCATION == "location"

ContentHeaders == {TRANSFER_ENCODING, CONTENT_ENCODING, CONTENT_TYPE, CONTENT_LENGTH}

(***************************************************************************)
(* http::HeaderMap with one value per name: a set of <<name, value>>.      *)
(***************************************************************************)
HeaderRemove(h, name) == {p \in h : p[1] # name}

HeaderInsert(h, name, value) == HeaderRemove(h, name) \cup {<<name, value>>}

HeaderHas(h, name) == \E p \in h : p[1] = name

HeaderGet(h, name) == IF HeaderHas(h, name) THEN Some((CHOOSE p \in h : p[1] = name)[2]) ELSE None

HeaderNames(h) == {p[1] : p \in h}

(***************************************************************************)
(* Transport responses.  The Location header is described by what the      *)
(* conversions applied to it yield: utf8 says whether from_utf8 accepts    *)
(* the bytes, joined is the result of Url::join on the current URL, uri    *)
(* says whether the joined URL is also a valid http::Uri.                  *)
(***************************************************************************)
Statuses == {200, 301, 302, 303, 307, 308}

LocValue(utf8, joined, uri) == [utf8 |-> utf8, joined |-> joined, uri |-> uri]

LocationValues ==
  {LocValue(FALSE, None, FALSE), LocValue(TRUE, None, FALSE)}
    \cup {LocValue(TRUE, Some(u), FALSE) : u \in {MkUrl("http", "a", FALSE, FALSE)}}
    \cup {LocValue(TRUE, Some(u), TRUE) : u \in Urls}

Response(status, loc, cookie) == [status |-> status, location |-> loc, set_cookie |-> cookie]

NoResponse == Response(0, None, FALSE)

Responses(cookies) ==
  {Response(s, l, c) : s \in Statuses, l \in {None} \cup {Some(v) : v \in LocationValues},
                       c \in (IF cookies THEN BOOLEAN ELSE {FALSE})}

\* Poll<Result<..>> of the in-flight exchange; what a resolved exchange holds
\* is read when the future is polled.
Pending == None

ReadyOk == Some("Ok")

ReadyErr == Some("Err")

\* Output of the RequestFuture
OutPending == [kind |-> "Pending", err |-> "-", status |-> 0, url |-> NoUrl, timeout |-> "none", cause |-> "-"]

OutOk(status, url, timeout) ==
  [kind |-> "Ok", err |-> "-", status |-> status, url |-> url, timeout |-> timeout, cause |-> "-"]

OutErr(err, url, cause) ==
  [kind |-> "Err", err |-> err, status |-> 0, url |-> url, timeout |-> "none", cause |-> cause]

Causes == {"too many redirects", "custom"}

\* redirect::ActionKind
Follow == [kind |-> "Follow", cause |-> "-"]

Stop == [kind |-> "Stop", cause |-> "-"]

Error(cause) == [kind |-> "Error", cause |-> cause]

\* the policy was not asked
NoAnswer == [kind |-> "none", cause |-> "-"]

(***************************************************************************)
(* External collaborators of the RequestFuture                             *)
(***************************************************************************)
\* redirect::remove_sensitive_headers: credentials are dropped when the next
\* URL is on another origin than the last URL of the chain.
remove_sensitive_headers(headers, next, previous) ==
  IF previous = <<>> THEN headers
  ELSE LET last == previous[Len(previous)]
           cross_host == next.host # last.host \/ next.scheme # last.scheme
       IN  IF cross_host
             THEN HeaderRemove(HeaderRemove(headers, AUTHORIZATION), COOKIE)
             ELSE headers

\* cookie store: the set of hosts the store holds a cookie for.
store_response_cookies(store, url) == store \cup {url.host}

\* add_cookie_header: a Cookie header is set when the store has a cookie for url.
add_cookie_header(headers, store, url) ==
  IF url.host \in store THEN HeaderInsert(headers, COOKIE, <<"jar", url.host>>) ELSE headers

\* The answers RedirectPolicy.check may give for a chain of the given length.
PolicyAnswers(chain) ==
  (IF Len(chain) <= MaxHops THEN {Follow} ELSE {}) \cup {Stop} \cup {Error(c) : c \in Causes}

(***************************************************************************)
(* RequestFuture::poll, piece by piece                                     *)
(***************************************************************************)
\* variant: the timeout is looked at only until the first redirect
timeout_ready_first_hop(t) == t.timeout = "elapsed" /\ t.redirect_chain = <<>>

\* variant: a resolved exchange is looked at before the timeout
timeout_ready_unresolved(t) == t.timeout = "elapsed" /\ t.in_flight.outcome # ReadyOk

\* Delay::poll of the request's timeout (lines 74-80)
timeout_ready(t) == t.timeout = "elapsed"

\* 301/302/303 arm: headers removed from the request
StripContentHeaders(headers) == {p \in headers : p[1] \notin ContentHeaders}

\* variant: the method is kept
DowngradeMethod_keep(method) == method

\* 301/302/303 arm: method downgrade
DowngradeMethod(method) == IF method \in {"GET", "HEAD"} THEN method ELSE "GET"

IsSeeOtherLike(status) == status \in {301, 302, 303}

IsTemporaryLike(status) == status \in {307, 308}

\* variant: 307 and 308 are followed whatever the body
should_redirect_any_body(status, body) ==
  CASE IsSeeOtherLike(status) -> TRUE
    [] IsTemporaryLike(status) -> TRUE
    [] OTHER -> FALSE

\* the match on res.status() deciding whether a redirect is attempted
should_redirect(status, body) ==
  CASE IsSeeOtherLike(status) -> TRUE
    [] IsTemporaryLike(status) -> (body = NoBody \/ (body # NoBody /\ body[1] # None))
    [] OTHER -> FALSE

\* variant: the joined URL is not checked to be a valid http::Uri
resolve_location_unchecked(res, url) ==
  IF res.location = None THEN None
  ELSE LET val == res.location[1] IN
       IF ~val.utf8 THEN None
       ELSE val.joined

\* the Location header resolved against the current URL
resolve_location(res, url) ==
  IF res.location = None THEN None
  ELSE LET val == res.location[1] IN
       IF ~val.utf8 THEN None
       ELSE IF val.joined = None THEN None
       ELSE IF ~val.uri THEN None
       ELSE val.joined

make_referer(next, previous) ==
  IF next.scheme = "http" /\ previous.scheme = "https" THEN None
  ELSE LET referer == [previous EXCEPT !.user = FALSE, !.frag = FALSE]
       IN  Some(as_str(referer))

\* variant: every resend goes without a body
ResendBody_dropped(body) == <<>>

\* body of the request that is sent again
ResendBody(body) ==
  IF body # NoBody /\ body[1] # None THEN body[1][1] ELSE <<>>

\* variant: the error carries the URL the redirect points to
RedirectErrorUrl_next(t, loc) == loc

\* URL attached to a Redirect error
RedirectErrorUrl(t, loc) == t.request.url

\* variant: the error carries the URL the request started at
RequestErrorUrl_first(t) == t.first.url

\* URL attached to a Request error (lines 83-89)
RequestErrorUrl(t) == t.request.url

\* hyper::Request as handed to the transport
HyperRequest(method, url, headers, body) ==
  [method |-> method, url |-> url, headers |-> headers, body |-> body]

\* variant: the request is handed to the transport twice
Submit_twice(t, req) == [id |-> t.in_flight.id + 2, req |-> req, outcome |-> Pending]

\* client.hyper.request(req): a new, unresolved exchange
Submit(t, req) == [id |-> t.in_flight.id + 1, req |-> req, outcome |-> Pending]

\* the request completes: no further poll
Complete(t, out) == [t EXCEPT !.output = out]

\* Response::new(res, url, accepts, timeout.take())
Finish(t, res) ==
  [t EXCEPT !.output = OutOk(res.status, t.request.url, t.timeout), !.timeout = "none"]

OnFollow(t, store, res, loc) ==
  LET headers == remove_sensitive_headers(t.request.headers, loc, t.redirect_chain)
      body == ResendBody(t.body)
      withCookie == IF t.client.cookie_store THEN add_cookie_header(headers, store, loc)
                    ELSE headers
      req == HyperRequest(t.request.method, loc, withCookie, [stream |-> FALSE, bytes |-> body])
  IN  [t EXCEPT !.request.url = loc,
                !.request.headers = withCookie,
                !.in_flight = Submit(t, req)]

\* variant: the URL is rewritten before the policy's answer is looked at
OnStop_rewritten(t, store, res, loc) == Finish([t EXCEPT !.request.url = loc], res)

OnStop(t, store, res, loc) == Finish(t, res)

OnError(t, res, loc, cause) == Complete(t, OutErr("Redirect", RedirectErrorUrl(t, loc), cause))

\* variant: the current URL is not pushed
ChainForCheck_unpushed(t) == t.redirect_chain

\* variant: the chain holds the current URL only
ChainForCheck_restarted(t) == <<t.request.url>>

\* the redirect_chain handed to the policy for this hop
ChainForCheck(t) == Append(t.redirect_chain, t.request.url)

\* lines 150-206: a usable Location was found
OnLocation(t, store, res, loc, action) ==
  LET referer == IF t.client.referer THEN make_referer(loc, t.request.url) ELSE None
      t1 == IF referer # None
              THEN [t EXCEPT !.request.headers = HeaderInsert(@, REFERER, referer[1])]
              ELSE t
      t2 == [t1 EXCEPT !.redirect_chain = ChainForCheck(t1),
                       !.checks = @ + 1,
                       !.decision = action]
  IN  CASE action.kind = "Follow" -> OnFollow(t2, store, res, loc)
        [] action.kind = "Stop" -> OnStop(t2, store, res, loc)
        [] OTHER -> OnError(t2, res, loc, action.cause)

\* variant: the body marker survives a 301, 302 or 303
OnResponse_marker_kept(t, store, res, action) ==
  LET t1 == IF IsSeeOtherLike(res.status)
              THEN [t EXCEPT !.request.headers = StripContentHeaders(@),
                             !.request.method = DowngradeMethod(@)]
              ELSE t
      loc == IF should_redirect(res.status, t.body) THEN resolve_location(res, t.request.url)
             ELSE None
  IN  IF loc # None THEN OnLocation(t1, store, res, loc[1], action)
      ELSE Finish(t1, res)

\* lines 91-217: one resolved response
OnResponse(t, store, res, action) ==
  LET t1 == IF IsSeeOtherLike(res.status)
              THEN [t EXCEPT !.body = NoBody,
                             !.request.headers = StripContentHeaders(@),
                             !.request.method = DowngradeMethod(@)]
              ELSE t
      loc == IF should_redirect(res.status, t.body) THEN resolve_location(res, t.request.url)
             ELSE None
  IN  IF loc # None THEN OnLocation(t1, store, res, loc[1], action)
      ELSE Finish(t1, res)

\* variant: the cookies of a redirect response are not stored
StoreAfter_final(t, store, res) ==
  IF t.client.cookie_store /\ res.set_cookie /\ res.status = 200
    THEN store_response_cookies(store, t.request.url) ELSE store

\* the cookie store after the response was seen (lines 91-103)
StoreAfter(t, store, res) ==
  IF t.client.cookie_store /\ res.set_cookie
    THEN store_response_cookies(store, t.request.url) ELSE store

\* RequestFuture::poll.  The exchange submitted by a Follow is unresolved when
\* the loop polls it, so the poll that follows a redirect returns Pending.
Poll(t, store, res, action) ==
  LET t0 == [t EXCEPT !.decision = NoAnswer, !.last = NoResponse] IN
  IF timeout_ready(t0)
    THEN [task |-> Complete(t0, OutErr("TimedOut", t0.request.url, "-")), jar |-> store]
  ELSE IF t0.in_flight.outcome = Pending
    THEN [task |-> [t0 EXCEPT !.suspended = TRUE], jar |-> store]
  ELSE IF t0.in_flight.outcome = ReadyErr
    THEN [task |-> Complete(t0, OutErr("Request", RequestErrorUrl(t0), "-")), jar |-> store]
  ELSE LET store1 == StoreAfter(t0, store, res)
           t1 == [t0 EXCEPT !.last = res, !.handled = t0.in_flight.id]
           t2 == OnResponse(t1, store1, res, action)
       IN  [task |-> [t2 EXCEPT !.suspended = (t2.output.kind = "Pending")], jar |-> store1]

(***************************************************************************)
(* The RequestFuture driven directly                                       *)
(***************************************************************************)
\* headers of a new request: the content headers that go with its body
InitialHeaders(body) ==
  IF body = NoBody THEN {<<AUTHORIZATION, "secret">>}
  ELSE IF body = ConsumedStream
    THEN {<<TRANSFER_ENCODING, "chunked">>, <<CONTENT_ENCODING, "gzip">>,
          <<CONTENT_TYPE, "text">>, <<AUTHORIZATION, "secret">>}
  ELSE {<<CONTENT_TYPE, "text">>, <<CONTENT_LENGTH, "2">>}

\* client configurations: referer, cookie store
Clients ==
  {[referer |-> TRUE, cookie_store |-> FALSE], [referer |-> FALSE, cookie_store |-> TRUE]}

\* body of the first request, by the marker kept for a resend
FirstBody(body) ==
  IF body = ConsumedStream THEN [stream |-> TRUE, bytes |-> <<>>]
  ELSE [stream |-> FALSE, bytes |-> ResendBody(body)]

\* RequestFuture as constructed for a request (fields of the struct)
NewTask(method, url, headers, body, timeout, client) ==
  [request |-> [method |-> method, url |-> url, headers |-> headers],
   body |-> body,
   timeout |-> timeout,
   client |-> client,
   redirect_chain |-> <<>>,
   in_flight |-> [id |-> 1,
                  req |-> HyperRequest(method, url, headers, FirstBody(body)),
                  outcome |-> Pending],
   output |-> OutPending,
   suspended |-> FALSE,
   first |-> [method |-> method, url |-> url, body |-> body],
   checks |-> 0,
   handled |-> 0,
   decision |-> NoAnswer,
   last |-> NoResponse]

\* requests with a deadline, and requests without one
Tasks ==
  {NewTask(m, u, InitialHeaders(b), b, "pending", c) :
     m \in Methods, u \in StartUrls, b \in BodyMarkers, c \in Clients}
  \cup {NewTask("GET", u, InitialHeaders(NoBody), NoBody, "none", c) :
          u \in StartUrls, c \in Clients}

Running(t) == t.output.kind = "Pending"

\* the request's Delay fires and wakes the task
Fire(t) == [t EXCEPT !.timeout = "elapsed", !.suspended = FALSE]

\* the in-flight exchange resolves and wakes the task
Resolve(t, o) == [t EXCEPT !.in_flight.outcome = o, !.suspended = FALSE]

Tick ==
  /\ Running(task)
  /\ task.timeout = "pending"
  /\ task' = Fire(task)
  /\ UNCHANGED jar
  /\ UNCHANGED bvars
  /\ UNCHANGED <<rvars, evars, dvars>>

\* the transport resolves the in-flight exchange
TransportResolve ==
  /\ Running(task)
  /\ task.in_flight.outcome = Pending
  /\ \E o \in {ReadyErr, ReadyOk} : task' = Resolve(task, o)
  /\ UNCHANGED jar
  /\ UNCHANGED bvars
  /\ UNCHANGED <<rvars, evars, dvars>>

\* a response is read only from an exchange that resolved successfully
ResponsesFor(t, all) ==
  IF t.in_flight.outcome = ReadyOk /\ ~timeout_ready(t) THEN all ELSE {NoResponse}

\* the policy answers only when a response is processed
AnswersFor(t) ==
  IF t.in_flight.outcome = ReadyOk /\ ~timeout_ready(t)
    THEN PolicyAnswers(ChainForCheck(t)) ELSE {Stop}

\* the executor polls the RequestFuture: at the start and whenever it was woken
PollTask ==
  /\ Running(task)
  /\ ~task.suspended
  /\ \E res \in ResponsesFor(task, Responses(task.client.cookie_store)),
        action \in AnswersFor(task) :
       LET r == Poll(task, jar, res, action) IN
         /\ task' = r.task
         /\ jar' = r.jar
  /\ UNCHANGED bvars
  /\ UNCHANGED <<rvars, evars, dvars>>

(***************************************************************************)
(* The blocking bridge                                                     *)
(***************************************************************************)
Callers == {1, 2}

\* timeouts a request or a client may carry
Durations == {1}

BridgeUrl == MkUrl("https", "a", TRUE, TRUE)

BridgeClient == [referer |-> FALSE, cookie_store |-> FALSE]

\* core Request (method, url, headers, body, timeout)
Request(timeout) ==
  [method |-> "GET", url |-> BridgeUrl, headers |-> {}, body |-> NoBody, timeout |-> timeout]

Requests == {Request(None)} \cup {Request(Some(d)) : d \in Durations}

\* what the transport answers to requests sent through the bridge
BridgeResponses ==
  { Response(200, None, FALSE) }

\* oneshot::channel()
NewChannel == [value |-> None, rx_open |-> TRUE, tx_open |-> TRUE]

\* ticket: the position of the caller's work item in the order of submission;
\* released: the Response the call returned has been dropped
NoCaller ==
  [pc |-> "off", req |-> Request(None), deadline |-> "none", token |-> FALSE,
   result |-> OutPending, by |-> "none", ticket |-> 0, released |-> FALSE]

NoSub == [state |-> "none", task |-> NewTask("GET", NoUrl, {}, NoBody, "none", BridgeClient),
          sent |-> "no"]

\* a RequestFuture that is not driven
TaskOff == [NewTask("GET", NoUrl, {}, NoBody, "none", BridgeClient) EXCEPT !.output.kind = "Off"]

\* async Client::send as called by the worker: the RequestFuture of the
\* request, with a Delay when the request has a timeout
client_send(req) ==
  [state |-> "running",
   task |-> NewTask(req.method, req.url, req.headers, req.body,
                    IF req.timeout # None THEN "pending" ELSE "none", BridgeClient),
   sent |-> "no"]

\* variant: the client default wins over the request's timeout
effective_timeout_default_first(req, default) == IF default # None THEN default ELSE req.timeout

\* variant: the smaller of the two when both are set
effective_timeout_min(req, default) ==
  IF req.timeout = None THEN default
  ELSE IF default = None THEN req.timeout
  ELSE IF default[1] < req.timeout[1] THEN default ELSE req.timeout

\* Client::send, the timeout the caller waits with
effective_timeout(req, default) == IF req.timeout # None THEN req.timeout ELSE default

\* the deadline of a waiting caller passes
CallerTick(c) ==
  /\ callers[c].pc \in {"poll", "parked"}
  /\ callers[c].deadline = "pending"
  /\ callers' = [callers EXCEPT ![c].deadline = "elapsed"]
  /\ UNCHANGED <<queue, chan, sub, worker, client_timeout>>
  /\ UNCHANGED tvars
  /\ UNCHANGED <<rvars, evars, dvars>>

\* number of work items submitted so far
Submitted == Cardinality({d \in Callers : callers[d].ticket > 0})

\* Client::send up to the first poll of execute_blocking[_timeout]: channel
\* created, work item enqueued, deadline computed
Send(c) ==
  /\ callers[c].pc = "idle"
  /\ owner.pc = "alive"
  /\ owner.clients > 0
  /\ \E req \in Requests :
       IF worker = "running"
         THEN LET timeout == effective_timeout(req, client_timeout) IN
              /\ chan' = [chan EXCEPT ![c] = NewChannel]
              /\ queue' = Append(queue, c)
              /\ callers' = [callers EXCEPT ![c].pc = "poll",
                                            ![c].req = req,
                                            ![c].deadline =
                                              IF timeout # None THEN "pending" ELSE "none",
                                            ![c].ticket = Submitted + 1]
         ELSE /\ callers' = [callers EXCEPT ![c].pc = "panicked", ![c].req = req]
              /\ UNCHANGED <<chan, queue>>
  /\ UNCHANGED <<sub, worker, client_timeout>>
  /\ UNCHANGED tvars
  /\ UNCHANGED <<rvars, evars, dvars>>

\* Receiver::drop: the channel closes and the sender's task is woken
DropReceiver(c) ==
  /\ chan' = [chan EXCEPT ![c].rx_open = FALSE]
  /\ sub' = IF sub[c].state = "running" THEN [sub EXCEPT ![c].task.suspended = FALSE] ELSE sub

\* variant: the error keeps the URL it came with
with_url_kept(out, url) == out

\* the error is given the URL of the request as sent
with_url(out, url) == IF out.kind = "Err" THEN [out EXCEPT !.url = url] ELSE out

\* variant: the deadline is never found passed
deadline_passed_never(deadline) == FALSE

\* now >= deadline in execute_blocking_timeout
deadline_passed(deadline) == deadline = "elapsed"

\* variant: a cancelled channel is turned into an error value
canceled_as_error(cl) ==
  [cl EXCEPT !.pc = "returned", !.result = OutErr("Request", cl.req.url, "-"), !.by = "channel"]

\* rx.await.map_err(|_canceled| event_loop_panicked()): the thread panics
canceled(cl) == [cl EXCEPT !.pc = "panicked"]

\* one turn of the loop of execute_blocking[_timeout] driving send_future:
\* poll, then return the output, or time out, or park
ExecPoll(c) ==
  /\ callers[c].pc = "poll"
  /\ IF chan[c].value # None
       THEN /\ callers' = [callers EXCEPT ![c].pc = "returned",
                                          ![c].result = with_url(chan[c].value[1], callers[c].req.url),
                                          ![c].by = "channel"]
            /\ DropReceiver(c)
     ELSE IF ~chan[c].tx_open
       THEN /\ callers' = [callers EXCEPT ![c] = canceled(@)]
            /\ DropReceiver(c)
     ELSE IF deadline_passed(callers[c].deadline)
       THEN /\ callers' = [callers EXCEPT ![c].pc = "returned",
                                          ![c].result = OutErr("TimedOut", callers[c].req.url, "-"),
                                          ![c].by = "executor"]
            /\ DropReceiver(c)
     ELSE /\ callers' = [callers EXCEPT ![c].pc = "parked"]
          /\ UNCHANGED <<chan, sub>>
  /\ UNCHANGED <<queue, worker, client_timeout>>
  /\ UNCHANGED tvars
  /\ UNCHANGED <<rvars, evars, dvars>>

\* thread::park / park_timeout returns: the token is taken, or the time is up
ParkWake(c) ==
  /\ callers[c].pc = "parked"
  /\ callers[c].token \/ deadline_passed(callers[c].deadline)
  /\ callers' = [callers EXCEPT ![c].pc = "poll", ![c].token = FALSE]
  /\ UNCHANGED <<queue, chan, sub, worker, client_timeout>>
  /\ UNCHANGED tvars
  /\ UNCHANGED <<rvars, evars, dvars>>

\* thread::park / park_timeout returns for no reason
ParkSpurious(c) ==
  /\ callers[c].pc = "parked"
  /\ ~callers[c].token
  /\ callers' = [callers EXCEPT ![c].pc = "poll"]
  /\ UNCHANGED <<queue, chan, sub, worker, client_timeout>>
  /\ UNCHANGED tvars
  /\ UNCHANGED <<rvars, evars, dvars>>

\* variant: the loop awaits the sub-task it started before it receives again
can_dequeue_serial(subs) == \A c \in Callers : subs[c].state # "running"

\* tokio::spawn returns at once: the loop receives again whatever the
\* sub-tasks already spawned are doing
can_dequeue(subs) == TRUE

\* variant: the responder travels with the request of another call
work_item_mixed(c) ==
  [req |-> callers[CHOOSE d \in Callers : d # c].req, responder |-> c]

\* the work item (request, tx) of the call of thread c, as enqueued by send
work_item(c) == [req |-> callers[c].req, responder |-> c]

\* the worker's loop: recv() yields a work item, its sub-task is spawned
Recv ==
  /\ worker = "running"
  /\ queue # <<>>
  /\ can_dequeue(sub)
  /\ LET item == work_item(Head(queue)) IN
       sub' = [sub EXCEPT ![item.responder] = client_send(item.req)]
  /\ queue' = Tail(queue)
  /\ UNCHANGED <<callers, chan, worker, client_timeout>>
  /\ UNCHANGED tvars
  /\ UNCHANGED <<rvars, evars, dvars>>

\* the transport resolves the exchange of a sub-task
SubResolve(c) ==
  /\ sub[c].state = "running"
  /\ sub[c].task.in_flight.outcome = Pending
  /\ \E o \in {ReadyErr, ReadyOk} : sub' = [sub EXCEPT ![c].task = Resolve(@, o)]
  /\ UNCHANGED <<queue, callers, chan, worker, client_timeout>>
  /\ UNCHANGED tvars
  /\ UNCHANGED <<rvars, evars, dvars>>

\* the Delay of a sub-task's RequestFuture fires
SubFire(c) ==
  /\ sub[c].state = "running"
  /\ sub[c].task.timeout = "pending"
  /\ sub' = [sub EXCEPT ![c].task = Fire(@)]
  /\ UNCHANGED <<queue, callers, chan, worker, client_timeout>>
  /\ UNCHANGED tvars
  /\ UNCHANGED <<rvars, evars, dvars>>

\* variant: a failed send is unwrapped
after_send_unwrap(ok) == IF ok THEN "running" ELSE "panicked"

\* the worker after responder.send returned ok or failed: `let _ =`
after_send(ok) == "running"

\* variant: the closing of the channel is never noticed
poll_closed_never(ch) == FALSE

\* responder.poll_closed: ready once the receiver is gone
poll_closed(ch) == ~ch.rx_open

\* await_while_open, one poll of the sub-task by the worker's scheduler, with
\* the responses the transport may give
SubPollWith(c, responses) ==
  /\ worker = "running"
  /\ sub[c].state = "running"
  /\ ~sub[c].task.suspended
  /\ \E res \in ResponsesFor(sub[c].task, responses), action \in AnswersFor(sub[c].task) :
       LET r == Poll(sub[c].task, jar, res, action) IN
         IF r.task.output.kind # "Pending"
           THEN \* the RequestFuture is ready: responder.send(res)
                /\ sub' = [sub EXCEPT ![c].task = r.task,
                                      ![c].state = "done",
                                      ![c].sent = IF chan[c].rx_open THEN "delivered" ELSE "failed"]
                /\ chan' = [chan EXCEPT ![c].value = IF chan[c].rx_open THEN Some(r.task.output)
                                                     ELSE @,
                                        ![c].tx_open = FALSE]
                /\ callers' = IF chan[c].rx_open THEN [callers EXCEPT ![c].token = TRUE]
                              ELSE callers
                /\ worker' = after_send(chan[c].rx_open)
         ELSE IF poll_closed(chan[c])
           THEN \* responder.poll_closed is ready: the request is cancelled
                /\ sub' = [sub EXCEPT ![c].task = r.task, ![c].state = "cancelled"]
                /\ chan' = [chan EXCEPT ![c].tx_open = FALSE]
                /\ UNCHANGED <<callers, worker>>
         ELSE /\ sub' = [sub EXCEPT ![c].task = r.task]
              /\ UNCHANGED <<chan, callers, worker>>
  /\ UNCHANGED <<queue, client_timeout>>
  /\ UNCHANGED tvars
  /\ UNCHANGED <<rvars, evars, dvars>>

\* the transport answers every request with a final response
SubPoll(c) == SubPollWith(c, BridgeResponses)

\* the URL a redirecting server points to
HopUrl == MkUrl("https", "b", FALSE, FALSE)

\* what a redirecting transport answers
HopResponses ==
  { Response(200, None, FALSE),
    Response(307, Some(LocValue(TRUE, Some(HopUrl), TRUE)), FALSE) }

\* the sub-task polled while the transport answers with redirects
SubPollHop(c) == SubPollWith(c, HopResponses)

(***************************************************************************)
(* Construction and destruction of the ClientRuntime                       *)
(***************************************************************************)
\* the thread about to call ClientRuntime::new
OwnerNew == [pc |-> "new", token |-> FALSE, result |-> "-", left |-> 0, clients |-> 0]

\* task_queue_sender exists: from its creation until new() fails or drop takes it
SenderOpen == owner.pc \in {"wait", "parked", "alive"}

\* ClientRuntime::new up to the first poll of execute_blocking: the channels
\* are created and the worker thread is spawned, or the spawn fails
Spawn ==
  /\ owner.pc = "new"
  /\ startup' = NewChannel
  /\ \E spawned \in BOOLEAN :
       IF spawned
         THEN /\ worker' = "starting"
              /\ owner' = [owner EXCEPT !.pc = "wait"]
         ELSE /\ worker' = "off"
              /\ owner' = [owner EXCEPT !.pc = "failed", !.result = "Builder"]
  /\ UNCHANGED <<queue, callers, chan, sub, client_timeout>>
  /\ UNCHANGED <<tvars, evars, dvars>>

\* oneshot Sender::send on the start-up channel, and the wake of the receiver
startup_send(ch, v) ==
  IF ch.rx_open THEN [ch EXCEPT !.value = Some(v), !.tx_open = FALSE]
  ELSE [ch EXCEPT !.tx_open = FALSE]

\* the worker thread builds its tokio runtime and reports on the start-up
\* channel: on failure it returns, on success it enters block_on
WorkerBuild ==
  /\ worker = "starting"
  /\ \E built \in BOOLEAN :
       /\ startup' = startup_send(startup, IF built THEN "Ok" ELSE "Err")
       /\ worker' = IF built /\ startup.rx_open THEN "running" ELSE "exited"
  /\ owner' = IF startup.rx_open THEN [owner EXCEPT !.token = TRUE] ELSE owner
  /\ UNCHANGED <<queue, callers, chan, sub, client_timeout>>
  /\ UNCHANGED <<tvars, evars, dvars>>

\* callers whose responder is owned by the worker thread: queued or in a sub-task
Held(c) == (\E i \in 1..Len(queue) : queue[i] = c) \/ sub[c].state = "running"

\* the worker's runtime is dropped: every sub-task still running is dropped
\* with its responder, which wakes the receiver
DropTasks ==
  /\ sub' = [c \in Callers |->
               IF sub[c].state = "running" THEN [sub[c] EXCEPT !.state = "dropped"] ELSE sub[c]]
  /\ chan' = [c \in Callers |-> IF Held(c) THEN [chan[c] EXCEPT !.tx_open = FALSE] ELSE chan[c]]
  /\ callers' = [c \in Callers |->
                   IF Held(c) /\ chan[c].rx_open THEN [callers[c] EXCEPT !.token = TRUE]
                   ELSE callers[c]]

\* the worker thread terminates abnormally: the unwinding drops the start-up
\* sender, the queue with its items, and the runtime with its sub-tasks
WorkerPanic ==
  /\ worker \in {"starting", "running"}
  /\ worker' = "panicked"
  /\ startup' = [startup EXCEPT !.tx_open = FALSE]
  /\ owner' = IF worker = "starting" THEN [owner EXCEPT !.token = TRUE] ELSE owner
  /\ queue' = <<>>
  /\ DropTasks
  /\ UNCHANGED client_timeout
  /\ UNCHANGED <<tvars, evars, dvars>>

\* variant: a reported start-up failure is not looked at
constructor_result_any(v) == "alive"

\* the match on the start-up report: Ok(Ok(_)) => (), Ok(Err(err)) => return Err(err)
constructor_result(v) == IF v = "Ok" THEN "alive" ELSE "failed"

\* execute_blocking(runtime_startup_indicator_rx): one turn of its loop
OwnerPoll ==
  /\ owner.pc = "wait"
  /\ IF startup.value # None
       THEN /\ owner' = [owner EXCEPT !.pc = constructor_result(startup.value[1]),
                                       !.result = IF constructor_result(startup.value[1]) = "alive"
                                                    THEN "Ok" ELSE "Builder",
                                       !.clients = IF constructor_result(startup.value[1]) = "alive"
                                                     THEN 1 ELSE 0]
            /\ startup' = [startup EXCEPT !.rx_open = FALSE]
     ELSE IF ~startup.tx_open
       THEN /\ owner' = [owner EXCEPT !.pc = "panicked"]
            /\ startup' = [startup EXCEPT !.rx_open = FALSE]
     ELSE /\ owner' = [owner EXCEPT !.pc = "parked"]
          /\ UNCHANGED startup
  /\ UNCHANGED bvars
  /\ UNCHANGED <<tvars, evars, dvars>>

\* thread::park returns in new(): the token is taken, or for no reason
OwnerWake ==
  /\ owner.pc = "parked"
  /\ owner' = [owner EXCEPT !.pc = "wait", !.token = FALSE]
  /\ UNCHANGED startup
  /\ UNCHANGED bvars
  /\ UNCHANGED <<tvars, evars, dvars>>

\* a thread is inside Client::send
InSend(c) == callers[c].pc \in {"poll", "parked"}

\* the Response a call of send returned is still held by its caller
Holds(c) ==
  callers[c].pc = "returned" /\ callers[c].result.kind = "Ok" /\ ~callers[c].released

\* variant: a Response holds no reference to the ClientRuntime
strong_count_clients(o, cs) == o.clients

\* the references to the Arc<ClientRuntime>: one in every Client, one in the
\* KeepCoreThreadAlive of every Response
strong_count(o, cs) == o.clients + Cardinality({c \in Callers : Holds(c)})

\* a reference is dropped and `remaining` are left.  With none left Drop for
\* ClientRuntime runs, first half: the sender is taken, which closes the queue
release(o, remaining) ==
  IF remaining = 0 THEN [o EXCEPT !.pc = "closing", !.left = Len(queue)] ELSE o

\* Client::clone
CloneClient ==
  /\ owner.pc = "alive"
  /\ owner.clients \in 1..(MaxClients - 1)
  /\ owner' = [owner EXCEPT !.clients = @ + 1]
  /\ UNCHANGED startup
  /\ UNCHANGED bvars
  /\ UNCHANGED <<tvars, evars, dvars>>

\* a Client is dropped; send borrows its Client, so the only Client left is
\* not dropped while a thread is inside send
DropClient ==
  /\ owner.pc = "alive"
  /\ owner.clients > 0
  /\ owner.clients = 1 => \A c \in Callers : ~InSend(c)
  /\ owner' = release([owner EXCEPT !.clients = @ - 1], strong_count(owner, callers) - 1)
  /\ UNCHANGED startup
  /\ UNCHANGED bvars
  /\ UNCHANGED <<tvars, evars, dvars>>

\* the Response a call returned is dropped, and its KeepCoreThreadAlive with it
DropResponse(c) ==
  /\ owner.pc = "alive"
  /\ Holds(c)
  /\ callers' = [callers EXCEPT ![c].released = TRUE]
  /\ owner' = release(owner, strong_count(owner, callers) - 1)
  /\ UNCHANGED startup
  /\ UNCHANGED <<queue, chan, sub, worker, client_timeout>>
  /\ UNCHANGED <<tvars, evars, dvars>>

\* variant: recv yields None as soon as the sender is gone
recv_none_on_close(q, open) == ~open

\* mpsc recv yields None: every sender is gone and the queue is empty
recv_none(q, open) == q = <<>> /\ ~open

\* the worker's loop ends, block_on returns, the runtime is dropped and the
\* thread finishes
RecvNone ==
  /\ worker = "running"
  /\ recv_none(queue, SenderOpen)
  /\ worker' = "finished"
  /\ queue' = <<>>
  /\ DropTasks
  /\ UNCHANGED client_timeout
  /\ UNCHANGED <<tvars, rvars, evars, dvars>>

\* Drop for ClientRuntime, second half: runtime_thread.take().map(|h| h.join())
Join ==
  /\ owner.pc = "closing"
  /\ worker \in {"finished", "panicked"}
  /\ owner' = [owner EXCEPT !.pc = "dropped"]
  /\ UNCHANGED startup
  /\ UNCHANGED bvars
  /\ UNCHANGED <<tvars, evars, dvars>>

(***************************************************************************)
(* The parking executor: execute_blocking and execute_blocking_timeout     *)
(* driving one future on the calling thread, as Client::send calls them    *)
(***************************************************************************)
\* Option<Duration> of a request and of a client
Timeouts == {None} \cup {Some(d) : d \in 0..MaxTimeout}

\* no parking executor on its own
NoExec ==
  [pc |-> "off", mode |-> "-", request |-> None, default |-> None, timeout |-> None,
   start |-> 0, deadline |-> None, park_until |-> None, token |-> FALSE, depth |-> 0,
   result |-> "-", immediate |-> FALSE, spurious |-> FALSE]

NoFut == [state |-> "off", waker |-> FALSE, wake_due |-> FALSE]

ExecOff ==
  /\ now = 0
  /\ exec = NoExec
  /\ fut = NoFut

\* the thread about to call Client::send; immediate and spurious record that
\* a park returned at once on a retained token, and for no reason
NewExec(request, default) ==
  [NoExec EXCEPT !.pc = "start", !.request = request, !.default = default]

\* the future handed to the executor: its state, whether it holds the
\* thread's waker, whether its completion still has to call that waker
NewFut == [state |-> "pending", waker |-> FALSE, wake_due |-> FALSE]

\* enter(): a shell runtime is built, entered with an empty closure and
\* dropped; nothing of it is kept by the thread
enter(e) == e

\* execute_blocking_flatten_timeout up to the loop: the timeout picks the
\* function, the deadline is computed once
ExecStart ==
  /\ exec.pc = "start"
  /\ now + MaxTimeout <= MaxClock
  /\ LET timeout == effective_timeout([timeout |-> exec.request], exec.default)
         e == enter(exec)
     IN  exec' = [e EXCEPT !.pc = "poll",
                           !.timeout = timeout,
                           !.mode = IF timeout # None THEN "timeout" ELSE "run",
                           !.start = now,
                           !.deadline = IF timeout # None THEN Some(now + timeout[1]) ELSE None,
                           !.depth = 1]
  /\ UNCHANGED <<now, fut>>
  /\ UNCHANGED <<tvars, bvars, rvars, dvars>>

\* Instant::now advances
ExecTick ==
  /\ exec.pc # "off"
  /\ now < MaxClock
  /\ now' = now + 1
  /\ UNCHANGED <<exec, fut>>
  /\ UNCHANGED <<tvars, bvars, rvars, dvars>>

\* variant: the deadline is looked at before the future is polled
ExecPollFut_deadline_first ==
  /\ exec.pc = "poll"
  /\ IF exec.mode = "timeout" /\ now >= exec.deadline[1]
       THEN /\ exec' = [exec EXCEPT !.pc = "returned", !.result = "TimedOut"]
            /\ UNCHANGED fut
       ELSE IF fut.state = "ready"
       THEN /\ exec' = [exec EXCEPT !.pc = "returned", !.result = "Output"]
            /\ UNCHANGED fut
       ELSE /\ exec' = [exec EXCEPT !.pc = "pending"]
            /\ fut' = [fut EXCEPT !.waker = TRUE]
  /\ UNCHANGED now
  /\ UNCHANGED <<tvars, bvars, rvars, dvars>>

\* future.as_mut().poll(&mut cx): the output, or Pending with the waker kept
ExecPollFut ==
  /\ exec.pc = "poll"
  /\ IF fut.state = "ready"
       THEN /\ exec' = [exec EXCEPT !.pc = "returned", !.result = "Output"]
            /\ UNCHANGED fut
       ELSE /\ exec' = [exec EXCEPT !.pc = "pending"]
            /\ fut' = [fut EXCEPT !.waker = TRUE]
  /\ UNCHANGED now
  /\ UNCHANGED <<tvars, bvars, rvars, dvars>>

\* variant: the deadline is taken anew at every turn of the loop
loop_deadline_sliding(e, n) == Some(n + e.timeout[1])

\* the deadline the loop of execute_blocking_timeout compares with
loop_deadline(e, n) == e.deadline

\* thread::park / thread::park_timeout entered: a retained token makes it
\* return at once, otherwise the thread blocks, at most until the instant given
park(e, until) ==
  IF e.token THEN [e EXCEPT !.pc = "poll", !.token = FALSE, !.immediate = TRUE]
  ELSE [e EXCEPT !.pc = "parked", !.park_until = until]

\* after a poll that returned Pending: the deadline check of
\* execute_blocking_timeout, then the park
ExecPark ==
  /\ exec.pc = "pending"
  /\ IF exec.mode = "timeout"
       THEN LET deadline == loop_deadline(exec, now) IN
            IF now >= deadline[1]
              THEN exec' = [exec EXCEPT !.pc = "returned", !.result = "TimedOut",
                                        !.deadline = deadline]
              ELSE exec' = park([exec EXCEPT !.deadline = deadline],
                                Some(now + (deadline[1] - now)))
       ELSE exec' = park(exec, None)
  /\ UNCHANGED <<now, fut>>
  /\ UNCHANGED <<tvars, bvars, rvars, dvars>>

\* the park returns: the token is taken, or the time given is over
ExecUnpark ==
  /\ exec.pc = "parked"
  /\ exec.token \/ (exec.park_until # None /\ now >= exec.park_until[1])
  /\ exec' = [exec EXCEPT !.pc = "poll", !.token = FALSE, !.park_until = None]
  /\ UNCHANGED <<now, fut>>
  /\ UNCHANGED <<tvars, bvars, rvars, dvars>>

\* the park returns for no reason
ExecSpurious ==
  /\ exec.pc = "parked"
  /\ ~exec.token
  /\ exec' = [exec EXCEPT !.pc = "poll", !.park_until = None, !.spurious = TRUE]
  /\ UNCHANGED <<now, fut>>
  /\ UNCHANGED <<tvars, bvars, rvars, dvars>>

\* another thread completes the future; it will call the waker the future holds
FutComplete ==
  /\ exec.pc # "off"
  /\ fut.state = "pending"
  /\ fut' = [fut EXCEPT !.state = "ready", !.wake_due = fut.waker]
  /\ UNCHANGED <<now, exec>>
  /\ UNCHANGED <<tvars, bvars, rvars, dvars>>

\* variant: only a thread that is parked is signalled
unpark_if_parked(e) == IF e.pc = "parked" THEN [e EXCEPT !.token = TRUE] ELSE e

\* ThreadWaker::wake_by_ref: Thread::unpark makes the token available
unpark(e) == [e EXCEPT !.token = TRUE]

\* the completing thread calls the waker
FutWake ==
  /\ fut.wake_due
  /\ exec' = unpark(exec)
  /\ fut' = [fut EXCEPT !.wake_due = FALSE]
  /\ UNCHANGED now
  /\ UNCHANGED <<tvars, bvars, rvars, dvars>>

\* the future being polled calls execute_blocking itself: enter() runs again
\* on the same thread, then the inner loop polls an inner future that is
\* ready at once (the call returns into the outer poll) or never is
Reenter ==
  /\ exec.pc = "poll"
  /\ exec.depth = 1
  /\ \E inner_ready \in BOOLEAN :
       LET e == enter(exec) IN
         exec' = IF inner_ready THEN [e EXCEPT !.result = "nested"]
                 ELSE [e EXCEPT !.pc = "inner", !.depth = 2, !.result = "nested"]
  /\ UNCHANGED <<now, fut>>
  /\ UNCHANGED <<tvars, bvars, rvars, dvars>>

\* the inner loop: its park takes the token, the inner future is polled
\* again and is still pending
InnerTurn ==
  /\ exec.pc = "inner"
  /\ exec.token
  /\ exec' = [exec EXCEPT !.token = FALSE]
  /\ UNCHANGED <<now, fut>>
  /\ UNCHANGED <<tvars, bvars, rvars, dvars>>

(***************************************************************************)
(* Message bodies (core/body): BytesBody, ReaderBody and StreamingBody     *)
(* behind Body.  The three implementations share one record; kind says     *)
(* which one is boxed.  The bytes a reader or a stream hands over are not  *)
(* followed, only how many they are.                                       *)
(***************************************************************************)
\* contents of a fixed buffer
Contents == {<<>>, <<7>>, <<7, 8>>}

DEFAULT_CHUNK_SIZE == 8192

\* lengths handed to Body::from_reader
ReaderLens == {None, Some(0), Some(2), Some(DEFAULT_CHUNK_SIZE + 1)}

\* byte counts one Read::read may report
ReadSizes == {0, 1, 2, DEFAULT_CHUNK_SIZE}

\* http_body::SizeHint
SizeHint(lower, upper) == [lower |-> lower, upper |-> upper]

\* SizeHint::default()
SizeUnknown == SizeHint(0, None)

\* SizeHint::with_exact, SizeHint::set_exact
with_exact(n) == SizeHint(n, Some(n))

\* SizeHint::exact
exact(h) == IF h.upper = Some(h.lower) THEN h.upper ELSE None

\* size hints hyper::Body reports for a response
HyperHints == {SizeUnknown, with_exact(2)}

\* the HttpBody a StreamingBody wraps, with the size hint it reports
NoInner == [wrap |-> "-", hint |-> SizeUnknown]

WrapStream == [wrap |-> "WrapStream", hint |-> SizeUnknown]

WrapHyper(hint) == [wrap |-> "WrapHyper", hint |-> hint]

MkBody(kind, bytes, remaining_len, inner, timeout) ==
  [kind |-> kind, body |-> bytes, remaining_len |-> remaining_len, inner |-> inner,
   timeout |-> timeout]

NoObj == MkBody("none", <<>>, None, NoInner, "none")

\* Body::from_bytes, BytesBody::new
from_bytes(chunk) == MkBody("Bytes", chunk, None, NoInner, "none")

\* Body::empty
empty == from_bytes(<<>>)

\* Body::from_reader, ReaderBody::new
from_reader(len) == MkBody("Reader", <<>>, len, NoInner, "none")

\* Body::from_stream, StreamingBody::from_stream
from_stream == MkBody("Streaming", <<>>, None, WrapStream, "none")

\* Body::response, StreamingBody::from_hyper
response(hint, timeout) == MkBody("Streaming", <<>>, None, WrapHyper(hint), timeout)

\* bodies as constructed
Bodies ==
  {from_bytes(c) : c \in Contents}
    \cup {from_reader(l) : l \in ReaderLens}
    \cup {from_stream}
    \cup {response(h, t) : h \in HyperHints, t \in {"none", "pending"}}

\* crate::Error by its kind and its source
error_body(source) == [kind |-> "Body", source |-> source]

error_builder(source) == [kind |-> "Builder", source |-> source]

NoError == [kind |-> "-", source |-> "-"]

\* what a pull returns: Poll::Pending, Ready(None), Ready(Some(Ok(chunk))),
\* Ready(Some(Err(e)))
NotReady == [tag |-> "Pending", data |-> <<>>, size |-> 0, err |-> NoError]

End == [tag |-> "End", data |-> <<>>, size |-> 0, err |-> NoError]

Chunk(data, size) == [tag |-> "Chunk", data |-> data, size |-> size, err |-> NoError]

Fail(err) == [tag |-> "Err", data |-> <<>>, size |-> 0, err |-> err]

NoOut == [tag |-> "-", data |-> <<>>, size |-> 0, err |-> NoError]

\* variant: the buffer is handed out and kept
BytesBody_poll_data_kept(b) ==
  IF b.body = <<>> THEN [obj |-> b, out |-> End]
  ELSE [obj |-> b, out |-> Chunk(b.body, Len(b.body))]

\* BytesBody::poll_data
BytesBody_poll_data(b) ==
  IF b.body = <<>> THEN [obj |-> b, out |-> End]
  ELSE [obj |-> [b EXCEPT !.body = <<>>], out |-> Chunk(b.body, Len(b.body))]

\* io::Result<usize> of Read::read
IoOk(n) == [ok |-> TRUE, n |-> n]

IoErr == [ok |-> FALSE, n |-> 0]

\* variant: the buffer always has the default size
chunk_size_default(b) == DEFAULT_CHUNK_SIZE

\* size of the buffer handed to the reader
chunk_size(b) ==
  LET wanted == IF b.remaining_len = None THEN DEFAULT_CHUNK_SIZE ELSE b.remaining_len[1]
  IN  IF wanted < DEFAULT_CHUNK_SIZE THEN wanted ELSE DEFAULT_CHUNK_SIZE

\* what the reader may answer for a buffer of that size, at any pull
Reads(size) == {IoOk(n) : n \in {k \in ReadSizes : k <= size}} \cup {IoErr}

\* ReaderBody::poll_data
ReaderBody_poll_data(b, io) ==
  IF io.ok /\ io.n = 0 THEN [obj |-> b, out |-> End]
  ELSE IF io.ok
    THEN [obj |-> [b EXCEPT !.remaining_len = IF @ = None THEN None ELSE Some(@[1] - io.n)],
          out |-> Chunk(<<>>, io.n)]
  ELSE [obj |-> b, out |-> Fail(error_body("io"))]

\* what the wrapped stream or hyper::Body may answer, at any pull
StreamItems == {NotReady, End, Chunk(<<>>, 1), Fail(error_body("source"))}

\* variant: the deadline of the response is not looked at
StreamingBody_poll_data_unbounded(b, item) == [obj |-> b, out |-> item]

\* StreamingBody::poll_data
StreamingBody_poll_data(b, item) ==
  IF b.timeout # "none" /\ b.timeout = "elapsed"
    THEN [obj |-> b, out |-> Fail(error_body("TimedOut"))]
    ELSE [obj |-> b, out |-> item]

\* Body::poll_data: the call on the boxed implementation
poll_data(b, io, item) ==
  CASE b.kind = "Bytes" -> BytesBody_poll_data(b)
    [] b.kind = "Reader" -> ReaderBody_poll_data(b, io)
    [] OTHER -> StreamingBody_poll_data(b, item)

\* variant: a reader never reports a size
ReaderBody_size_hint_unknown(b) == SizeUnknown

\* ReaderBody::size_hint
ReaderBody_size_hint(b) ==
  IF b.remaining_len # None THEN with_exact(b.remaining_len[1]) ELSE SizeUnknown

\* BytesBody::size_hint
BytesBody_size_hint(b) == with_exact(Len(b.body))

\* StreamingBody::size_hint: the hint of the wrapped body; WrapStream keeps
\* the default of the trait, WrapHyper asks hyper::Body
StreamingBody_size_hint(b) ==
  IF b.inner.wrap = "WrapHyper" THEN b.inner.hint ELSE SizeUnknown

\* Body::size_hint
size_hint(b) ==
  CASE b.kind = "Bytes" -> BytesBody_size_hint(b)
    [] b.kind = "Reader" -> ReaderBody_size_hint(b)
    [] OTHER -> StreamingBody_size_hint(b)

\* Body::content_length
content_length(b) == exact(size_hint(b))

\* Result<Body, crate::Error>
CloneOk(b) == [ok |-> TRUE, value |-> b, err |-> NoError]

CloneErr(e) == [ok |-> FALSE, value |-> NoObj, err |-> e]

NoClone == [ok |-> FALSE, value |-> NoObj, err |-> NoError]

\* variant: every implementation hands out a copy
try_clone_body_always(b) == Some(b)

\* BodyClone::try_clone_body of the three implementations
try_clone_body(b) == IF b.kind = "Bytes" THEN Some(b) ELSE None

\* TryClone for Body (core/body/mod.rs)
Body_try_clone(b) ==
  LET copy == try_clone_body(b)
  IN  IF copy # None THEN CloneOk(copy[1]) ELSE CloneErr(error_body("CannotCloneBodyError"))

\* TryClone for ReaderBody
ReaderBody_try_clone(b) == CloneErr(error_builder("CannotCloneReaderBodyError"))

\* TryClone for StreamingBody
StreamingBody_try_clone(b) == CloneErr(error_builder("CannotCloneStreamingBodyError"))

\* TryClone for Body (async_impl/body/mod.rs): Inner::Bytes is cloned,
\* Inner::Streaming asks the StreamingBody
AsyncBody_try_clone(b) ==
  IF b.kind = "Bytes" THEN CloneOk(b) ELSE StreamingBody_try_clone(b)

\* the implementations of try_clone a body of that kind can be asked through
CloneEntries(b) ==
  {"Body"}
    \cup (IF b.kind = "Reader" THEN {"ReaderBody"} ELSE {})
    \cup (IF b.kind = "Streaming" THEN {"StreamingBody"} ELSE {})
    \cup (IF b.kind \in {"Bytes", "Streaming"} THEN {"AsyncBody"} ELSE {})

try_clone(via, b) ==
  CASE via = "Body" -> Body_try_clone(b)
    [] via = "ReaderBody" -> ReaderBody_try_clone(b)
    [] via = "StreamingBody" -> StreamingBody_try_clone(b)
    [] OTHER -> AsyncBody_try_clone(b)

(***************************************************************************)
(* core Request and RequestBuilder with the body they hold                 *)
(***************************************************************************)
\* Request::new
Request_new(method, url) ==
  [method |-> method, url |-> url, headers |-> {}, body |-> None, timeout |-> None,
   cors |-> TRUE]

NoRequest == Request_new("-", NoUrl)

\* crate::Result<Request>
RequestOk(req) == [ok |-> TRUE, req |-> req, err |-> NoError]

RequestErr(err) == [ok |-> FALSE, req |-> NoRequest, err |-> err]

\* variant: the headers are not copied
Request_try_clone_bare(req) ==
  IF req.body # None /\ ~Body_try_clone(req.body[1]).ok
    THEN RequestErr(Body_try_clone(req.body[1]).err)
    ELSE RequestOk([Request_new(req.method, req.url) EXCEPT
                      !.timeout = req.timeout,
                      !.body = IF req.body # None THEN Some(Body_try_clone(req.body[1]).value)
                               ELSE None])

\* TryClone for Request
Request_try_clone(req) ==
  IF req.body # None /\ ~Body_try_clone(req.body[1]).ok
    THEN RequestErr(Body_try_clone(req.body[1]).err)
    ELSE RequestOk([Request_new(req.method, req.url) EXCEPT
                      !.timeout = req.timeout,
                      !.headers = req.headers,
                      !.body = IF req.body # None THEN Some(Body_try_clone(req.body[1]).value)
                               ELSE None])

\* RequestBuilder { request }
RequestBuilder(request) == [request |-> request]

NoBuilder == RequestBuilder(RequestErr(NoError))

\* Result<RequestBuilder, crate::Error>
BuilderOk(b) == [ok |-> TRUE, value |-> b, err |-> NoError]

BuilderErr(e) == [ok |-> FALSE, value |-> NoBuilder, err |-> e]

NoCopy == BuilderErr(NoError)

\* TryClone for RequestBuilder
RequestBuilder_try_clone(b) ==
  IF b.request.ok
    THEN LET req == Request_try_clone(b.request.req)
         IN  IF req.ok THEN BuilderOk(RequestBuilder(req)) ELSE BuilderErr(req.err)
    ELSE BuilderErr(b.request.err)

\* RequestBuilder::build
build(b) == b.request

\* RequestBuilder::new: url is None when into_url fails
RequestBuilder_new(method, url) ==
  IF url = None THEN RequestBuilder(RequestErr(error_builder("url")))
  ELSE RequestBuilder(RequestOk(Request_new(method, url[1])))

\* variant: a bad header is reported whatever the builder holds
header_sensitive_unguarded(b, key_ok, value_ok) ==
  IF ~key_ok THEN RequestBuilder(RequestErr(error_builder("header name")))
  ELSE IF ~value_ok THEN RequestBuilder(RequestErr(error_builder("header value")))
  ELSE IF b.request.ok THEN [b EXCEPT !.request.req.headers = HeaderInsert(@, "foo", "bar")]
  ELSE b

\* RequestBuilder::header_sensitive, reached from header, basic_auth and
\* bearer_auth
header_sensitive(b, key_ok, value_ok) ==
  IF ~b.request.ok THEN b
  ELSE IF ~key_ok THEN RequestBuilder(RequestErr(error_builder("header name")))
  ELSE IF ~value_ok THEN RequestBuilder(RequestErr(error_builder("header value")))
  ELSE [b EXCEPT !.request.req.headers = HeaderInsert(@, "foo", "bar")]

\* RequestBuilder::body
with_body(b, payload) ==
  IF b.request.ok THEN [b EXCEPT !.request.req.body = Some(payload)] ELSE b

\* RequestBuilder::timeout
with_timeout(b, timeout) ==
  IF b.request.ok THEN [b EXCEPT !.request.req.timeout = Some(timeout)] ELSE b

\* RequestBuilder::query, for a value that serializes to no pair (the empty
\* query is removed again) or fails to serialize
query(b, ok) ==
  IF ~b.request.ok THEN b
  ELSE IF ok THEN b
  ELSE RequestBuilder(RequestErr(error_builder("query")))

\* RequestBuilder::form
form(b, ok) ==
  IF ~b.request.ok THEN b
  ELSE IF ok
    THEN [b EXCEPT !.request.req.headers = HeaderInsert(@, CONTENT_TYPE, "form"),
                   !.request.req.body = Some(from_bytes(<<7>>))]
  ELSE RequestBuilder(RequestErr(error_builder("form")))

\* RequestBuilder::json
json(b, ok) ==
  IF ~b.request.ok THEN b
  ELSE IF ok
    THEN [b EXCEPT !.request.req.headers = HeaderInsert(@, CONTENT_TYPE, "json"),
                   !.request.req.body = Some(from_bytes(<<7, 8>>))]
  ELSE RequestBuilder(RequestErr(error_builder("json")))

\* RequestBuilder::fetch_mode_no_cors
fetch_mode_no_cors(b) ==
  IF b.request.ok THEN [b EXCEPT !.request.req.cors = FALSE] ELSE b

\* the builder after one of its operations
BuilderSteps(b) ==
  {header_sensitive(b, k, v) : k \in BOOLEAN, v \in BOOLEAN}
    \cup {with_body(b, from_stream), with_timeout(b, 1), fetch_mode_no_cors(b)}
    \cup {query(b, ok) : ok \in BOOLEAN}
    \cup {form(b, ok) : ok \in BOOLEAN}
    \cup {json(b, ok) : ok \in BOOLEAN}

\* blocking RequestBuilder::send: client.execute(self.request?); executed
\* says whether a request was handed to the client
builder_send(b) ==
  IF b.request.ok THEN [executed |-> TRUE, err |-> NoError]
  ELSE [executed |-> FALSE, err |-> b.request.err]

NoSent == [executed |-> FALSE, err |-> NoError]

\* builders as left by new, header, body, timeout and fetch_mode_no_cors, and
\* a builder whose URL did not parse
Builders ==
  {RequestBuilder(RequestOk([Request_new(m, BridgeUrl) EXCEPT
                               !.headers = {<<"foo", "bar">>},
                               !.body = b,
                               !.timeout = Some(1),
                               !.cors = c])) :
     m \in {"GET", "POST"},
     b \in {None, Some(from_bytes(<<7, 8>>)), Some(empty), Some(from_reader(Some(2))),
            Some(from_stream)},
     c \in BOOLEAN}
    \cup {RequestBuilder(RequestErr(error_builder("url")))}

(***************************************************************************)
(* Operations on a body and on a builder                                   *)
(***************************************************************************)
\* what the pulls and the clones returned so far: the body as constructed,
\* the last operation, the pulls made, the chunks and bytes delivered, the
\* last answer,
\* whether end (or, for a reader, an error) was signalled, the clone with the
\* implementation that was asked, the clone of the builder, the first error
\* an operation of the builder reported, and what build and send returned
NoSeen ==
  [made |-> NoObj, op |-> "-", pulls |-> 0, chunks |-> 0, emitted |-> 0, last |-> NoOut,
   closed |-> FALSE,
   clones |-> 0, clone |-> NoClone, via |-> "-", built |-> 0, copy |-> NoCopy,
   first_err |-> NoError, request |-> RequestErr(NoError), sent |-> NoSent]

NewSeen(b) == [NoSeen EXCEPT !.made = b]

Closes(b, out) == out.tag = "End" \/ (b.kind = "Reader" /\ out.tag = "Err")

\* the reader is asked by a ReaderBody only, the wrapped body by a
\* StreamingBody only
ReadsOf(b) == IF b.kind = "Reader" THEN Reads(chunk_size(b)) ELSE {IoErr}

ItemsOf(b) == IF b.kind = "Streaming" THEN StreamItems ELSE {NotReady}

\* one pull on the body
Pull ==
  /\ obj.kind # "none"
  /\ seen.pulls < MaxPulls
  /\ \E io \in ReadsOf(obj), item \in ItemsOf(obj) :
       LET r == poll_data(obj, io, item) IN
         /\ obj' = r.obj
         /\ seen' = [seen EXCEPT !.op = "pull",
                                 !.pulls = @ + 1,
                                 !.chunks = IF r.out.tag = "Chunk" THEN @ + 1 ELSE @,
                                 !.emitted = @ + r.out.size,
                                 !.last = r.out,
                                 !.closed = @ \/ Closes(obj, r.out)]
  /\ UNCHANGED builder
  /\ UNCHANGED <<tvars, bvars, rvars, evars>>

\* the Delay of a response body fires
BodyTick ==
  /\ obj.kind = "Streaming"
  /\ obj.timeout = "pending"
  /\ obj' = [obj EXCEPT !.timeout = "elapsed"]
  /\ seen' = [seen EXCEPT !.op = "tick"]
  /\ UNCHANGED builder
  /\ UNCHANGED <<tvars, bvars, rvars, evars>>

\* try_clone(&self) on the body
TryClone ==
  /\ obj.kind # "none"
  /\ seen.clones = 0
  /\ \E via \in CloneEntries(obj) :
       seen' = [seen EXCEPT !.op = "clone", !.clones = @ + 1, !.clone = try_clone(via, obj),
                            !.via = via]
  /\ UNCHANGED <<obj, builder>>
  /\ UNCHANGED <<tvars, bvars, rvars, evars>>

\* try_clone(&self) on the builder
BuilderTryClone ==
  /\ builder # NoBuilder
  /\ seen.built = 0
  /\ seen' = [seen EXCEPT !.op = "rebuild", !.built = 1,
                          !.copy = RequestBuilder_try_clone(builder)]
  /\ UNCHANGED <<obj, builder>>
  /\ UNCHANGED <<tvars, bvars, rvars, evars>>

\* one operation on a builder that was neither built nor sent
BuilderOp ==
  /\ builder # NoBuilder
  /\ seen.op \notin {"build", "send"}
  /\ \E b \in BuilderSteps(builder) :
       /\ builder' = b
       /\ seen' = [seen EXCEPT !.op = "builder",
                               !.first_err = IF build(builder).ok /\ ~build(b).ok
                                               THEN build(b).err ELSE @]
  /\ UNCHANGED obj
  /\ UNCHANGED <<tvars, bvars, rvars, evars>>

\* build(self)
BuilderBuild ==
  /\ builder # NoBuilder
  /\ seen.op \notin {"build", "send"}
  /\ seen' = [seen EXCEPT !.op = "build", !.request = build(builder)]
  /\ UNCHANGED <<obj, builder>>
  /\ UNCHANGED <<tvars, bvars, rvars, evars>>

\* send(self, client) of the blocking builder
BuilderSend ==
  /\ builder # NoBuilder
  /\ seen.op \notin {"build", "send"}
  /\ seen' = [seen EXCEPT !.op = "send", !.sent = builder_send(builder)]
  /\ UNCHANGED <<obj, builder>>
  /\ UNCHANGED <<tvars, bvars, rvars, evars>>

\* no body and no builder is looked at
BodyOff ==
  /\ obj = NoObj
  /\ seen = NoSeen
  /\ builder = NoBuilder

(***************************************************************************)
(* Specifications                                                          *)
(***************************************************************************)
\* no ClientRuntime
NoOwner == [pc |-> "off", token |-> FALSE, result |-> "-", left |-> 0, clients |-> 0]

\* the thread holding a ClientRuntime that was built
OwnerAlive == [pc |-> "alive", token |-> FALSE, result |-> "Ok", left |-> 0, clients |-> 1]

\* the start-up channel after the worker reported success and new() took it
StartupDone == [value |-> Some("Ok"), rx_open |-> FALSE, tx_open |-> FALSE]

BridgeOff ==
  /\ queue = <<>>
  /\ callers = [c \in Callers |-> NoCaller]
  /\ chan = [c \in Callers |-> NewChannel]
  /\ sub = [c \in Callers |-> NoSub]
  /\ worker = "off"
  /\ client_timeout = None
  /\ owner = NoOwner
  /\ startup = NewChannel

\* the bridge with the threads in S about to call send
BridgeInit(S) ==
  /\ queue = <<>>
  /\ callers = [c \in Callers |-> IF c \in S THEN [NoCaller EXCEPT !.pc = "idle"] ELSE NoCaller]
  /\ chan = [c \in Callers |-> NewChannel]
  /\ sub = [c \in Callers |-> NoSub]
  /\ worker = "running"
  /\ client_timeout \in {None} \cup {Some(d) : d \in Durations}
  /\ owner = OwnerAlive
  /\ startup = StartupDone

\* a RequestFuture driven directly
Init ==
  /\ task \in Tasks
  /\ jar = {}
  /\ BodyOff
  /\ BridgeOff
  /\ ExecOff

Next == Tick \/ TransportResolve \/ PollTask

Spec == Init /\ [][Next]_vars

\* requests sent through the blocking bridge
InitBridge ==
  /\ task = TaskOff
  /\ jar = {}
  /\ BodyOff
  /\ BridgeInit(Callers)
  /\ ExecOff

NextBridgeOf(S) ==
  \/ Recv
  \/ \E c \in S : CallerTick(c)
  \/ \E c \in S : Send(c)
  \/ \E c \in S : ExecPoll(c)
  \/ \E c \in S : ParkWake(c)
  \/ \E c \in S : ParkSpurious(c)
  \/ \E c \in S : SubResolve(c)
  \/ \E c \in S : SubFire(c)
  \/ \E c \in S : SubPoll(c)

NextBridge == NextBridgeOf(Callers)

SpecBridge == InitBridge /\ [][NextBridge]_vars

\* one thread calling send on a client whose requests are redirected
HopCallers == {1}

InitHops ==
  /\ task = TaskOff
  /\ jar = {}
  /\ BodyOff
  /\ BridgeInit(HopCallers)
  /\ ExecOff

NextHops ==
  \/ Recv
  \/ \E c \in HopCallers : CallerTick(c)
  \/ \E c \in HopCallers : Send(c)
  \/ \E c \in HopCallers : ExecPoll(c)
  \/ \E c \in HopCallers : ParkWake(c)
  \/ \E c \in HopCallers : ParkSpurious(c)
  \/ \E c \in HopCallers : SubResolve(c)
  \/ \E c \in HopCallers : SubFire(c)
  \/ \E c \in HopCallers : SubPollHop(c)

SpecHops == InitHops /\ [][NextHops]_vars

\* the bridge with its threads running: the worker's scheduler polls every
\* woken sub-task and receives again, every calling thread goes on, timers
\* fire; nothing makes an exchange resolve or a thread call send
SpecConc ==
  /\ InitBridge
  /\ [][NextBridge]_vars
  /\ WF_vars(Recv)
  /\ \A c \in Callers :
       /\ WF_vars(CallerTick(c))
       /\ WF_vars(ExecPoll(c))
       /\ WF_vars(ParkWake(c))
       /\ WF_vars(SubFire(c))
       /\ WF_vars(SubPoll(c))

\* threads calling send on a ClientRuntime followed from construction to drop
LifeCallers == {1}

\* the whole life of a ClientRuntime: construction, calls, abnormal
\* termination of the worker, destruction
InitLifecycle ==
  /\ task = TaskOff
  /\ jar = {}
  /\ BodyOff
  /\ queue = <<>>
  /\ callers = [c \in Callers |-> IF c \in LifeCallers THEN [NoCaller EXCEPT !.pc = "idle"]
                                   ELSE NoCaller]
  /\ chan = [c \in Callers |-> NewChannel]
  /\ sub = [c \in Callers |-> NoSub]
  /\ worker = "off"
  /\ client_timeout \in {Some(d) : d \in Durations}
  /\ owner = OwnerNew
  /\ startup = NewChannel
  /\ ExecOff

NextLifecycle ==
  \/ Spawn
  \/ WorkerBuild
  \/ WorkerPanic
  \/ OwnerPoll
  \/ OwnerWake
  \/ CloneClient
  \/ DropClient
  \/ \E c \in LifeCallers : DropResponse(c)
  \/ RecvNone
  \/ Join
  \/ NextBridgeOf(LifeCallers)

\* the worker's loop goes on and a join returns once the thread has ended
SpecLifecycle ==
  /\ InitLifecycle
  /\ [][NextLifecycle]_vars
  /\ WF_vars(Recv)
  /\ WF_vars(RecvNone)
  /\ WF_vars(Join)

\* a ClientRuntime whose worker thread may terminate abnormally at any time
NextPanic == NextBridge \/ WorkerPanic

SpecPanic == InitBridge /\ [][NextPanic]_vars

\* a thread calling Client::send with a request timeout and a client default,
\* followed inside the parking executor
InitExec ==
  /\ task = TaskOff
  /\ jar = {}
  /\ BodyOff
  /\ BridgeOff
  /\ now = 0
  /\ exec \in {NewExec(r, d) : r \in Timeouts, d \in Timeouts}
  /\ fut = NewFut

NextExec ==
  \/ ExecStart
  \/ ExecTick
  \/ ExecPollFut
  \/ ExecPark
  \/ ExecUnpark
  \/ ExecSpurious
  \/ FutComplete
  \/ FutWake

\* the clock advances, the calling thread runs, a thread that completed the
\* future goes on to call the waker
SpecExec ==
  /\ InitExec
  /\ [][NextExec]_vars
  /\ WF_vars(ExecTick)
  /\ WF_vars(ExecPollFut)
  /\ WF_vars(ExecPark)
  /\ WF_vars(ExecUnpark)
  /\ WF_vars(FutWake)

\* the same, with a future that may call the executor again from its poll
NextNested == NextExec \/ Reenter \/ InnerTurn

SpecNested == InitExec /\ [][NextNested]_vars

\* both ways of running a request, with time passing, woken tasks polled and
\* both threads running
LiveCallers == {1}

InitLive ==
  \/ /\ task = NewTask("POST", MkUrl("https", "a", TRUE, TRUE), InitialHeaders(NoBody), NoBody,
                        "pending", [referer |-> TRUE, cookie_store |-> FALSE])
     /\ jar = {}
     /\ BodyOff
     /\ BridgeOff
     /\ ExecOff
  \/ /\ task = TaskOff
     /\ jar = {}
     /\ BodyOff
     /\ BridgeInit(LiveCallers)
     /\ ExecOff

NextLive == Next \/ NextBridgeOf(LiveCallers)

SpecLive ==
  /\ InitLive
  /\ [][NextLive]_vars
  /\ WF_vars(Tick)
  /\ WF_vars(PollTask)
  /\ WF_vars(Recv)
  /\ \A c \in LiveCallers :
       /\ WF_vars(CallerTick(c))
       /\ WF_vars(ExecPoll(c))
       /\ WF_vars(ParkWake(c))
       /\ WF_vars(SubFire(c))
       /\ WF_vars(SubPoll(c))

\* a body on its own, or a builder on its own
InitBody ==
  /\ task = TaskOff
  /\ jar = {}
  /\ BridgeOff
  /\ ExecOff
  /\ \/ /\ obj \in Bodies
        /\ seen = NewSeen(obj)
        /\ builder = NoBuilder
     \/ /\ obj = NoObj
        /\ seen = NoSeen
        /\ builder \in Builders

NextBody == Pull \/ BodyTick \/ TryClone \/ BuilderTryClone

SpecBody == InitBody /\ [][NextBody]_vars

\* a builder from its construction to build or send
InitBuilder ==
  /\ task = TaskOff
  /\ jar = {}
  /\ BridgeOff
  /\ ExecOff
  /\ obj = NoObj
  /\ builder \in {RequestBuilder_new(m, u) :
                    m \in {"GET", "POST"}, u \in {None, Some(MkUrl("http", "a", FALSE, FALSE))}}
  /\ seen = [NoSeen EXCEPT !.first_err = build(builder).err]

NextBuilder == BuilderOp \/ BuilderBuild \/ BuilderSend

SpecBuilder == InitBuilder /\ [][NextBuilder]_vars

\* Response::new(res, url, accepts, timeout.take()): the body of the Response
\* wraps the body of the transport response and takes the deadline
Response_new(hint, timeout) == response(hint, timeout)

\* size hints of the transport bodies that are followed
ResponseHints == {with_exact(2)}

\* the executor polls the RequestFuture; the Response it completes with holds
\* the body that is pulled afterwards
PollResponse ==
  /\ Running(task)
  /\ ~task.suspended
  /\ \E res \in ResponsesFor(task, Responses(task.client.cookie_store)),
        action \in AnswersFor(task), hint \in ResponseHints :
       LET r == Poll(task, jar, res, action)
           made == Response_new(hint, r.task.output.timeout)
       IN  /\ task' = r.task
           /\ jar' = r.jar
           /\ obj' = IF r.task.output.kind = "Ok" THEN made ELSE obj
           /\ seen' = IF r.task.output.kind = "Ok" THEN NewSeen(made) ELSE seen
  /\ UNCHANGED builder
  /\ UNCHANGED bvars
  /\ UNCHANGED <<rvars, evars>>

\* requests whose response body is followed
ResponseTasks ==
  {t \in Tasks : /\ t.request.method = "GET"
                 /\ t.request.url = MkUrl("http", "a", FALSE, FALSE)
                 /\ t.body = NoBody
                 /\ t.client.referer}

\* a RequestFuture driven directly, and the body of its Response
InitResponse ==
  /\ task \in ResponseTasks
  /\ jar = {}
  /\ BridgeOff
  /\ ExecOff
  /\ BodyOff

NextResponse == Tick \/ TransportResolve \/ PollResponse \/ BodyTick \/ Pull

SpecResponse == InitResponse /\ [][NextResponse]_vars

(***************************************************************************)
(* Properties of the RequestFuture                                         *)
(***************************************************************************)
\* this step is a poll that took the response of the in-flight exchange
Handled == task'.handled # task.handled

\* this step is a poll that submitted a new exchange
Resent == task'.in_flight.id # task.in_flight.id

EmptyBody == [stream |-> FALSE, bytes |-> <<>>]

\* a Location header no redirect target can be made of
Unusable(location) ==
  \/ location = None
  \/ /\ location # None
     /\ (~location[1].utf8 \/ location[1].joined = None \/ ~location[1].uri)

\* C1: a followed 301, 302 or 303 is resent as GET (GET and HEAD are kept),
\* with an empty body and none of the four content headers.
C1_SeeOtherResend ==
  [][(Resent /\ task'.last.status \in {301, 302, 303}) =>
       /\ task'.in_flight.req.method =
            (IF task.request.method \in {"GET", "HEAD"} THEN task.request.method ELSE "GET")
       /\ task'.in_flight.req.body = EmptyBody
       /\ HeaderNames(task'.in_flight.req.headers)
            \cap {"transfer-encoding", "content-encoding", "content-type", "content-length"} = {}
    ]_vars

C1_Witness ==
  /\ task.last.status = 301
  /\ task.decision = Follow
  /\ task.first.method = "POST"
  /\ task.first.body = ConsumedStream
  /\ task.in_flight.id = 2
  /\ task.in_flight.req.method = "GET"

\* C2: a 307 or 308 answer to a request whose body is a consumed stream ends
\* the task with that response: no policy call, no chain entry, no exchange.
C2_StreamNotFollowed ==
  [][(Handled /\ task'.last.status \in {307, 308} /\ task.body = ConsumedStream) =>
       /\ task'.checks = task.checks
       /\ task'.redirect_chain = task.redirect_chain
       /\ task'.in_flight = task.in_flight
       /\ task'.output = OutOk(task'.last.status, task.request.url, task.timeout)
    ]_vars

C2_Witness ==
  /\ task.last.status = 307
  /\ ~Unusable(task.last.location)
  /\ task.body = ConsumedStream
  /\ task.output.kind = "Ok"
  /\ task.output.status = 307

\* C3: a redirect answer with an unusable Location ends the task with that
\* response: no failure, no policy call, no exchange, no chain entry.
C3_UnusableLocation ==
  [][(/\ Handled
      /\ \/ task'.last.status \in {301, 302, 303}
         \/ task'.last.status \in {307, 308} /\ task.body # ConsumedStream
      /\ Unusable(task'.last.location)) =>
       /\ task'.output = OutOk(task'.last.status, task.request.url, task.timeout)
       /\ task'.checks = task.checks
       /\ task'.in_flight = task.in_flight
       /\ task'.redirect_chain = task.redirect_chain
    ]_vars

C3_Witness ==
  /\ task.last.status = 308
  /\ task.last.location # None
  /\ task.last.location[1].joined # None
  /\ ~task.last.location[1].uri
  /\ task.body # ConsumedStream
  /\ task.output.kind = "Ok"

\* C4: when the policy answers Error(cause) the task fails with a Redirect
\* error holding that cause and the URL of the request that was redirected;
\* no exchange is submitted.
C4_PolicyError ==
  [][(Handled /\ task'.decision.kind = "Error") =>
       /\ task'.output = OutErr("Redirect", task.request.url, task'.decision.cause)
       /\ task'.decision.cause \in Causes
       /\ task'.in_flight = task.in_flight
    ]_vars

C4_Witness ==
  /\ task.decision = Error("custom")
  /\ task.output.err = "Redirect"
  /\ task.last.location[1].joined[1] # task.output.url

\* number of redirects followed so far
Followed == task.in_flight.id - 1

C6_PolicyStop ==
  [][(Handled /\ task'.decision.kind = "Stop") =>
       /\ task'.in_flight = task.in_flight
       /\ task'.request.url = task.request.url
       /\ task'.output = OutOk(task'.last.status, task.request.url, task.timeout)
    ]_vars

C6_Witness ==
  /\ task.decision = Stop
  /\ task.last.status = 302
  /\ task.output.kind = "Ok"
  /\ task.last.location[1].joined[1] # task.output.url
  /\ Followed = 1

\* the previous URL without userinfo and fragment, as a header value
RefererOf(previous) == <<previous.scheme, "://", previous.host, "/">>

\* C7: with referer enabled every resend carries the previous URL (userinfo
\* and fragment removed) as Referer, and no Referer at all from https to http.
C7_Referer ==
  [][(Resent /\ task.client.referer) =>
       IF task.request.url.scheme = "https" /\ task'.request.url.scheme = "http"
         THEN ~HeaderHas(task'.in_flight.req.headers, "referer")
         ELSE HeaderGet(task'.in_flight.req.headers, "referer")
                = Some(RefererOf(task.request.url))
    ]_vars

\* C8: the task is never left waiting on an exchange after the deadline has
\* elapsed, and from then on it takes no response, submits no exchange and
\* can only end with TimedOut for the current URL.
C8_DeadlineFirst ==
  /\ [](~(task.suspended /\ task.timeout = "elapsed"))
  /\ [][task.timeout = "elapsed" =>
          /\ ~Handled
          /\ ~Resent
          /\ (task'.output # task.output =>
                task'.output = OutErr("TimedOut", task.request.url, "-"))
       ]_vars

C8_Witness ==
  /\ task.output.err = "TimedOut"
  /\ Followed = 1
  /\ task.in_flight.outcome = ReadyOk
  /\ task.output.url = task.request.url
  /\ task.request.url # task.first.url

\* C31: with a cookie store, the cookies of every response taken are stored
\* against the URL of the request that received it, before the redirect is
\* decided: the request sent again carries the Cookie header of a store that
\* already holds them.  The store is written by nothing else, and not for a
\* response without a cookie.
C31_CookiesBeforeRedirect ==
  /\ [][IF Handled /\ task.client.cookie_store /\ task'.last.set_cookie
          THEN jar' = jar \cup {task.request.url.host}
          ELSE jar' = jar]_vars
  /\ [][(Resent /\ task.client.cookie_store /\ task'.request.url.host \in jar') =>
          HeaderGet(task'.in_flight.req.headers, COOKIE)
            = Some(<<"jar", task'.request.url.host>>)]_vars

C31_Witness ==
  /\ task.client.cookie_store
  /\ Followed = 1
  /\ task.handled = 1
  /\ task.last.set_cookie
  /\ task.last.status = 307
  /\ task.request.url.host = task.first.url.host
  /\ jar = {task.first.url.host}
  /\ HeaderGet(task.in_flight.req.headers, COOKIE) = Some(<<"jar", task.request.url.host>>)

\* C34: a poll that finds the deadline elapsed and the exchange resolved ends
\* the task with TimedOut for the current URL: the response is not taken, the
\* cookie store is not written, and no redirect is processed.
C34_DeadlineWins ==
  [][(task.timeout = "elapsed" /\ task.in_flight.outcome = ReadyOk /\ Running(task)) =>
       /\ task'.output = OutErr("TimedOut", task.request.url, "-")
       /\ jar' = jar
       /\ ~Handled
       /\ ~Resent
       /\ task'.last = NoResponse
       /\ task'.decision = NoAnswer
       /\ task'.request = task.request
       /\ task'.body = task.body
       /\ task'.redirect_chain = task.redirect_chain
    ]_vars

C34_Witness ==
  /\ task.output.err = "TimedOut"
  /\ task.in_flight.outcome = ReadyOk
  /\ task.client.cookie_store
  /\ task.handled = 0
  /\ jar = {}
  /\ task.redirect_chain = <<>>
  /\ task.output.url = task.first.url

\* C35: the body marker changes only by being set to None when a 301, 302 or
\* 303 is taken, and every such response sets it; once it is None it stays
\* None, every request sent again carries the bytes the marker holds (none
\* when it is None), and a 307 or 308 with a usable Location is then put to
\* the policy even for a request that started with a consumed stream.
C35_BodyMarker ==
  /\ [][task'.body # task.body =>
          Handled /\ IsSeeOtherLike(task'.last.status) /\ task'.body = NoBody]_vars
  /\ [][(Handled /\ IsSeeOtherLike(task'.last.status)) => task'.body = NoBody]_vars
  /\ [][Resent =>
          /\ task'.in_flight.req.body = [stream |-> FALSE, bytes |-> ResendBody(task'.body)]
          /\ (task'.body = NoBody => task'.in_flight.req.body = EmptyBody)]_vars
  /\ [][(Handled /\ IsTemporaryLike(task'.last.status) /\ task.body = NoBody
           /\ ~Unusable(task'.last.location)) =>
          /\ task'.checks = task.checks + 1
          /\ (task'.decision = Follow => Resent)]_vars

C35_Witness ==
  /\ task.first.body = ConsumedStream
  /\ task.body = NoBody
  /\ Followed = 2
  /\ task.handled = 2
  /\ task.last.status \in {307, 308}
  /\ task.decision = Follow
  /\ task.in_flight.req.body = EmptyBody

C26_OneExchange ==
  /\ [](task.handled \in {task.in_flight.id - 1, task.in_flight.id})
  /\ [][Resent =>
          /\ Handled
          /\ task.in_flight.outcome = ReadyOk
          /\ task'.handled = task.in_flight.id
          /\ task'.in_flight.id = task.in_flight.id + 1
          /\ task'.in_flight.outcome = Pending
          /\ task'.in_flight.req.url = task'.request.url
       ]_vars

C26_Witness ==
  /\ Followed = 2
  /\ task.handled = 2
  /\ task.in_flight.outcome = Pending
  /\ task.in_flight.req.url # task.first.url

\* C27: a poll that finds the in-flight exchange failed ends the task with a
\* Request error for the URL of that exchange, the rewritten URL after
\* redirects; no response is taken, the policy is not asked, nothing is stored
\* in the cookie store, the chain is kept and no exchange is submitted.
C27_TransportFailure ==
  [][(/\ Running(task)
      /\ task.in_flight.outcome = ReadyErr
      /\ ~timeout_ready(task)
      /\ task'.timeout = task.timeout
      /\ task' # task) =>
       /\ task'.output = OutErr("Request", task.in_flight.req.url, "-")
       /\ task.in_flight.req.url = task.request.url
       /\ ~Handled
       /\ ~Resent
       /\ task'.decision = NoAnswer
       /\ task'.checks = task.checks
       /\ task'.redirect_chain = task.redirect_chain
       /\ task'.request = task.request
       /\ jar' = jar
    ]_vars

C27_Witness ==
  /\ task.output.err = "Request"
  /\ task.in_flight.outcome = ReadyErr
  /\ Followed = 1
  /\ task.output.url = task.in_flight.req.url
  /\ task.output.url # task.first.url
  /\ task.client.cookie_store

\* C30: a followed 307 or 308 is resent with the method kept; when the marker
\* is ReusableBuffer the body of the resend holds the bytes of the original
\* body and the marker is kept for the next hop, and when the marker is None
\* the body of the resend is empty.
C30_TemporaryResend ==
  [][(Resent /\ task'.last.status \in {307, 308}) =>
       /\ task'.in_flight.req.method = task.request.method
       /\ task'.body = task.body
       /\ task.body # ConsumedStream
       /\ task.body # NoBody =>
            /\ task.body = task.first.body
            /\ task'.in_flight.req.method = task.first.method
            /\ task'.in_flight.req.body = [stream |-> FALSE, bytes |-> task.first.body[1][1]]
       /\ task.body = NoBody => task'.in_flight.req.body = EmptyBody
    ]_vars

C30_Witness ==
  /\ Followed = 2
  /\ task.last.status = 308
  /\ task.first.method = "POST"
  /\ task.first.body = ReusableBuffer(<<7, 8>>)
  /\ task.in_flight.req.method = "POST"
  /\ task.in_flight.req.body = [stream |-> FALSE, bytes |-> <<7, 8>>]

(***************************************************************************)
(* Properties of the blocking bridge                                       *)
(***************************************************************************)
\* the exchange of caller c's request has resolved
Resolved(c) == sub[c].state # "none" /\ sub[c].task.in_flight.outcome # Pending

Waiting(c) == callers[c].pc \in {"poll", "parked"}

\* C9: with a deadline and an exchange that never resolves, the request ends
\* with TimedOut, for a RequestFuture driven directly and for a blocking send.
C9_TimesOut ==
  /\ (Running(task) /\ task.timeout # "none" /\ task.in_flight.outcome = Pending)
       ~> (task.in_flight.outcome # Pending \/ task.output.err = "TimedOut")
  /\ \A c \in LiveCallers :
       (Waiting(c) /\ callers[c].deadline # "none" /\ ~Resolved(c))
         ~> (Resolved(c) \/ callers[c].result.err = "TimedOut")

\* the caller timed out in its executor and the RequestFuture of its request
\* timed out on the worker, the exchange still unresolved
C9_Witness ==
  /\ callers[1].by = "executor"
  /\ callers[1].result.err = "TimedOut"
  /\ sub[1].task.output.err = "TimedOut"
  /\ sub[1].sent = "failed"
  /\ sub[1].task.in_flight.outcome = Pending

\* C10: a sub-task whose RequestFuture completes sends the output once, a
\* failed send being ignored; a sub-task that finds the channel closed while
\* the RequestFuture is pending ends without sending; the worker keeps running.
C10_AwaitWhileOpen ==
  /\ [][\A c \in Callers :
          /\ (sub[c].state = "running" /\ sub'[c].state = "done") =>
               /\ sub[c].sent = "no"
               /\ sub'[c].task.output.kind # "Pending"
               /\ chan[c].value = None
               /\ IF chan[c].rx_open
                    THEN sub'[c].sent = "delivered" /\ chan'[c].value = Some(sub'[c].task.output)
                    ELSE sub'[c].sent = "failed" /\ chan'[c].value = None
               /\ worker' = "running"
          /\ (sub[c].state = "running" /\ sub'[c].state = "cancelled") =>
               /\ ~chan[c].rx_open
               /\ sub'[c].task.output.kind = "Pending"
               /\ sub'[c].sent = "no"
               /\ chan'[c].value = None
               /\ worker' = "running"
          /\ (sub[c].state \in {"done", "cancelled"}) =>
               (sub'[c] = sub[c] /\ chan'[c].value = chan[c].value)
       ]_vars
  /\ [](\A c \in Callers : (sub[c].sent # "no") <=> (sub[c].state = "done"))

\* one sub-task was cancelled with its exchange unresolved, the other completed
\* after its caller had gone
C10_Witness ==
  /\ sub[1].state = "cancelled"
  /\ sub[1].task.in_flight.outcome = Pending
  /\ sub[2].state = "done"
  /\ sub[2].sent = "failed"
  /\ sub[2].task.output.kind = "Ok"
  /\ worker = "running"

\* the caller gave up in its executor: its receiver is dropped
GaveUp(c) == callers[c].by = "executor"

\* the sub-task of caller c has ended
Stopped(c) == sub[c].state \in {"done", "cancelled"}

\* the exchange of caller c's request is unresolved on the worker
Unresolved(c) == sub[c].state = "running" /\ sub[c].task.in_flight.outcome = Pending

\* caller c got what its own sub-task produced
GotOwnResult(c) ==
  /\ callers[c].by = "channel"
  /\ sub[c].state = "done"
  /\ callers[c].result = with_url(sub[c].task.output, callers[c].req.url)

\* C11: a caller that times out drops only its own channel and touches no
\* other request; its sub-task eventually stops; another request in flight
\* whose exchange resolves is still delivered to its own caller.
C11_CancelOwnOnly ==
  /\ [][\A c \in Callers :
          (~GaveUp(c) /\ GaveUp(c)') =>
            /\ ~chan'[c].rx_open
            /\ queue' = queue
            /\ worker' = worker
            /\ \A d \in Callers \ {c} :
                 sub'[d] = sub[d] /\ chan'[d] = chan[d] /\ callers'[d] = callers[d]
       ]_vars
  /\ \A c \in Callers : GaveUp(c) ~> Stopped(c)
  /\ \A d \in Callers :
       (/\ Waiting(d) /\ Resolved(d) /\ callers[d].deadline = "none"
        /\ \E c \in Callers \ {d} : GaveUp(c))
         ~> GotOwnResult(d)

\* caller 1 gave up and its sub-task was cancelled with the exchange
\* unresolved; caller 2, submitted later, got its response
C11_Witness ==
  /\ GaveUp(1)
  /\ callers[1].ticket = 1
  /\ sub[1].state = "cancelled"
  /\ sub[1].task.in_flight.outcome = Pending
  /\ callers[2].ticket = 2
  /\ GotOwnResult(2)
  /\ callers[2].result.kind = "Ok"

InQueue(c) == \E i \in 1..Len(queue) : queue[i] = c

\* a request submitted before d's is on the worker with its exchange unresolved
EarlierUnresolved(d) ==
  \E c \in Callers \ {d} : Unresolved(c) /\ callers[c].ticket < callers[d].ticket

\* C12: requests run concurrently on the worker: the loop can always receive
\* the next work item, and a request submitted after one whose exchange is
\* unresolved is still dequeued and, once its exchange resolves, returned.
C12_Concurrent ==
  /\ []((worker = "running" /\ queue # <<>>) => ENABLED Recv)
  /\ \A d \in Callers : (InQueue(d) /\ EarlierUnresolved(d)) ~> (sub[d].state # "none")
  /\ \A d \in Callers :
       (Waiting(d) /\ Resolved(d) /\ callers[d].deadline = "none" /\ EarlierUnresolved(d))
         ~> (GotOwnResult(d) \/ ~EarlierUnresolved(d))

\* the request submitted second was returned while the one submitted first
\* is still waiting for its exchange
C12_Witness ==
  /\ callers[1].ticket = 1
  /\ callers[2].ticket = 2
  /\ GotOwnResult(2)
  /\ callers[2].result.kind = "Ok"
  /\ Unresolved(1)
  /\ Waiting(1)

(***************************************************************************)
(* Properties of the life of the ClientRuntime                             *)
(***************************************************************************)
\* new() is blocked in execute_blocking on the start-up channel
Constructing == owner.pc \in {"wait", "parked"}

\* the worker reported that its scheduler is up
Signalled == startup.value = Some("Ok")

\* this step takes a work item off the queue and starts its sub-task
Dequeues == \E c \in Callers : sub[c].state = "none" /\ sub'[c].state # "none"

\* C13: new() leaves its wait only after the worker reported or died; it
\* returns a ClientRuntime only after the worker signalled success and a
\* builder error when the worker reported a failure; the worker dequeues
\* nothing before it signalled success.
C13_Startup ==
  /\ [][(Constructing /\ ~Constructing') => (startup.value # None \/ ~startup.tx_open)]_vars
  /\ [](owner.pc \in {"alive", "closing", "dropped"} => (Signalled /\ owner.result = "Ok"))
  /\ []((startup.value = Some("Err") /\ ~Constructing) =>
          (owner.pc = "failed" /\ owner.result = "Builder"))
  /\ [][Dequeues => (Signalled /\ worker = "running")]_vars
  /\ []((worker = "starting" \/ Constructing) => (queue = <<>> /\ Submitted = 0))

\* the constructor returned a ClientRuntime and the worker, which had
\* signalled, has dequeued the first work item
C13_Witness ==
  /\ owner.pc = "alive"
  /\ owner.result = "Ok"
  /\ Signalled
  /\ worker = "running"
  /\ sub[1].state = "running"
  /\ Waiting(1)

\* every work item that was submitted has been dequeued
AllDequeued == \A c \in Callers : callers[c].ticket > 0 => sub[c].state # "none"

\* C14: after the drop took the sender nothing is enqueued; the worker's loop
\* ends only when the queue is closed and every item has been dequeued; the
\* drop returns only after the worker thread has ended, and it does return.
C14_Shutdown ==
  /\ [][owner.pc \in {"closing", "dropped"} => Len(queue') <= Len(queue)]_vars
  /\ [][(worker = "running" /\ worker' = "finished") =>
          (owner.pc = "closing" /\ queue = <<>> /\ AllDequeued)]_vars
  /\ [](owner.pc = "dropped" => worker \in {"finished", "panicked"})
  /\ [](worker = "finished" => (queue = <<>> /\ AllDequeued))
  /\ (owner.pc = "closing") ~> (owner.pc = "dropped")

\* the drop found an item in the queue, the worker dequeued it, ended its
\* loop and was joined
C14_Witness ==
  /\ owner.pc = "dropped"
  /\ owner.left = 1
  /\ worker = "finished"
  /\ sub[1].state = "dropped"
  /\ GaveUp(1)

\* this step ends a call of send by caller c
EndsCall(c) ==
  /\ callers[c].pc \in {"idle", "poll", "parked"}
  /\ callers'[c].pc \in {"returned", "panicked"}

C37_OriginalUrl ==
  /\ [](\A c \in Callers :
          (callers[c].pc = "returned" /\ callers[c].result.kind = "Err") =>
            callers[c].result.url = callers[c].req.url)
  /\ [][\A c \in Callers :
          (callers[c].pc = "poll" /\ callers'[c].pc = "returned"
             /\ callers'[c].result.kind = "Err") =>
            /\ callers'[c].result.url = callers[c].req.url
            /\ callers'[c].by = "channel" =>
                  /\ chan[c].value # None
                  /\ callers'[c].result.err = chan[c].value[1].err
                  /\ callers'[c].result.cause = chan[c].value[1].cause]_vars

\* the RequestFuture failed on the URL it was redirected to, and the caller
\* got the error with the URL it had asked for
C37_Witness ==
  /\ callers[1].pc = "returned"
  /\ callers[1].result.err = "Request"
  /\ callers[1].by = "channel"
  /\ sub[1].task.in_flight.id = 2
  /\ sub[1].task.output.err = "Request"
  /\ sub[1].task.output.url = HopUrl
  /\ callers[1].result.url = BridgeUrl

\* the RequestFuture was made with a Delay
HasDelay(t) == t.timeout # "none" \/ t.output.timeout # "none"

\* C38: every call of send creates its own channel and touches no other; a
\* channel is written once at most, by the sub-task spawned for its work
\* item; that sub-task runs the request the call enqueued, and a result a
\* call takes from its channel is the output of that sub-task.
C38_OwnChannel ==
  /\ [][\A c \in Callers :
          (callers[c].pc = "idle" /\ callers'[c].pc = "poll") =>
            /\ chan'[c] = NewChannel
            /\ \A d \in Callers \ {c} : chan'[d] = chan[d]
            /\ queue' = Append(queue, c)]_vars
  /\ [][\A c \in Callers :
          chan'[c].value # chan[c].value =>
            /\ chan[c].value = None
            /\ chan[c].tx_open /\ ~chan'[c].tx_open
            /\ sub[c].state = "running" /\ sub'[c].state = "done"
            /\ chan'[c].value = Some(sub'[c].task.output)]_vars
  /\ [](\A c \in Callers :
          sub[c].state # "none" =>
            /\ sub[c].task.first.url = callers[c].req.url
            /\ sub[c].task.first.method = callers[c].req.method
            /\ HasDelay(sub[c].task) <=> callers[c].req.timeout # None)
  /\ [](\A c \in Callers :
          (callers[c].pc = "returned" /\ callers[c].by = "channel") =>
            /\ sub[c].state = "done"
            /\ sub[c].sent = "delivered"
            /\ callers[c].result = with_url(sub[c].task.output, callers[c].req.url))

\* two calls with different requests, taken by the worker in the order of
\* submission, each returned with the output of its own RequestFuture
C38_Witness ==
  /\ callers[1].pc = "returned" /\ callers[1].by = "channel"
  /\ callers[2].pc = "returned" /\ callers[2].by = "channel"
  /\ callers[2].ticket = 1
  /\ callers[1].req.timeout = None
  /\ callers[2].req.timeout # None
  /\ callers[1].result.kind = "Ok"
  /\ callers[2].result.err = "TimedOut"
  /\ sub[2].task.output.err = "TimedOut"
  /\ ~HasDelay(sub[1].task)

\* C39: while a Client or a Response returned by send exists the queue is
\* open and the worker thread is not joined; the drop of the ClientRuntime
\* starts with the step that drops the last of them, at a moment when no
\* thread is inside send, and no reference is made afterwards.
C39_KeptAlive ==
  /\ [](strong_count(owner, callers) > 0 =>
          (owner.pc = "alive" /\ SenderOpen /\ worker # "finished"))
  /\ [](owner.pc \in {"closing", "dropped"} =>
          (owner.clients = 0 /\ \A c \in Callers : ~Holds(c) /\ ~InSend(c)))
  /\ [][(owner.pc = "alive" /\ owner'.pc # "alive") =>
          /\ owner'.pc = "closing"
          /\ strong_count(owner, callers) = 1
          /\ \A c \in Callers : ~InSend(c)]_vars
  /\ [][\A c \in Callers : (~InSend(c) /\ InSend(c)') => owner.clients > 0]_vars

\* every Client is gone, a Response is still held, the worker is running and
\* the queue is open
C39_Witness ==
  /\ owner.clients = 0
  /\ Holds(1)
  /\ owner.pc = "alive"
  /\ worker = "running"
  /\ SenderOpen

(***************************************************************************)
(* Properties of the parking executor                                      *)
(***************************************************************************)
\* the thread is inside execute_blocking[_timeout]
Executing == exec.pc \in {"poll", "pending", "parked"}

\* the request and the client both carry a timeout
BothSet == exec.request # None /\ exec.default # None

Smaller(a, b) == IF a < b THEN a ELSE b

\* this step is the one after a poll that found the future pending
AfterPending == exec.pc = "pending" /\ exec'.pc # "pending"

\* C16 as stated: with both timeouts set the caller never sleeps past the
\* smaller of the two, and a check at or after it returns TimedOut.
C16_BoundedByMin ==
  /\ []((BothSet /\ exec.pc = "parked") =>
          exec.park_until[1] <= exec.start + Smaller(exec.request[1], exec.default[1]))
  /\ [][(BothSet /\ AfterPending
            /\ now >= exec.start + Smaller(exec.request[1], exec.default[1])) =>
          exec'.result = "TimedOut"]_vars

\* C16: with both timeouts set the wait is bounded by the request's timeout:
\* the caller sleeps until start + request timeout at most, a check at or
\* after that instant returns TimedOut, and none before it does.
C16_BoundedByRequest ==
  /\ []((BothSet /\ exec.pc = "parked") =>
          exec.park_until = Some(exec.start + exec.request[1]))
  /\ [][(BothSet /\ AfterPending) =>
          (exec'.result = "TimedOut" <=> now >= exec.start + exec.request[1])]_vars

\* the client default has passed and the caller, whose request carries a
\* larger timeout, still sleeps
C16_Witness ==
  /\ BothSet
  /\ exec.default[1] < exec.request[1]
  /\ exec.pc = "parked"
  /\ now >= exec.start + exec.default[1]
  /\ now < exec.start + exec.request[1]
  /\ fut.state = "pending"

\* C17: the wait runs with the request's timeout when it has one, with the
\* client default when it has none, and without a time bound when neither
\* is set.
C17_RequestOverrides ==
  /\ [](exec.pc \notin {"off", "start"} =>
          /\ exec.timeout = (IF exec.request # None THEN exec.request ELSE exec.default)
          /\ exec.deadline = (IF exec.request # None THEN Some(exec.start + exec.request[1])
                               ELSE IF exec.default # None THEN Some(exec.start + exec.default[1])
                               ELSE None))
  /\ []((exec.request = None /\ exec.default = None) =>
          /\ exec.result # "TimedOut"
          /\ exec.pc = "parked" => exec.park_until = None)
  /\ [](exec.result = "TimedOut" => now >= exec.start + exec.timeout[1])

\* the request's timeout, larger than the client default, ended the wait
C17_Witness ==
  /\ BothSet
  /\ exec.request[1] > exec.default[1]
  /\ exec.result = "TimedOut"
  /\ exec.pc = "returned"
  /\ now = exec.start + exec.request[1]

\* C18: a token made available after a poll and before the park makes that
\* park return at once; a park that returns, for whatever reason, leads to
\* another poll; the output is returned only from a ready future, run never
\* returns anything else, and a future that became ready is returned from.
C18_NoLostWakeup ==
  /\ [][(AfterPending /\ exec.token /\ exec'.result # "TimedOut") =>
          (exec'.pc = "poll" /\ ~exec'.token)]_vars
  /\ [][(exec.pc = "parked" /\ exec'.pc # "parked") => exec'.pc = "poll"]_vars
  /\ [](exec.result = "Output" => fut.state = "ready")
  /\ []((exec.pc = "returned" /\ exec.mode = "run") => exec.result = "Output")
  /\ (Executing /\ fut.state = "ready") ~> (exec.pc = "returned")

\* the waker was called between a poll and the park that followed it, the
\* park returned at once and run returned the output
C18_Witness ==
  /\ exec.mode = "run"
  /\ exec.pc = "returned"
  /\ exec.result = "Output"
  /\ exec.immediate
  /\ ~exec.spurious

\* C19: the deadline is computed at entry and never changes; TimedOut is
\* returned only after a poll that found the future pending and with the
\* deadline passed; a park lasts until the deadline at most; the call returns
\* whether or not the waker is ever called.
C19_FixedDeadline ==
  /\ [][exec.pc \in {"poll", "pending", "parked"} => exec'.deadline = exec.deadline]_vars
  /\ [](exec.mode = "timeout" => exec.deadline = Some(exec.start + exec.timeout[1]))
  /\ [][(exec.result # "TimedOut" /\ exec'.result = "TimedOut") =>
          (exec.pc = "pending" /\ now >= exec.deadline[1])]_vars
  /\ [][(exec.mode = "timeout" /\ AfterPending /\ now >= exec.deadline[1]) =>
          exec'.result = "TimedOut"]_vars
  /\ []((exec.mode = "timeout" /\ exec.pc = "parked") =>
          (exec.park_until = exec.deadline /\ exec.deadline[1] <= exec.start + MaxTimeout))
  /\ (exec.mode = "timeout" /\ Executing) ~> (exec.pc = "returned")

\* the waker was never called, the park returned for no reason before the
\* deadline, and the call returned TimedOut at the deadline set at entry
C19_Witness ==
  /\ exec.result = "TimedOut"
  /\ exec.spurious
  /\ ~exec.immediate
  /\ fut.state = "pending"
  /\ exec.timeout = Some(2)
  /\ now = exec.start + 2

\* C36: execute_blocking_timeout polls the future before it looks at the
\* deadline: the call goes from entry to a poll, a poll of a ready future
\* returns its output whatever the clock and the timeout (zero included), and
\* TimedOut is returned only by the deadline check that directly follows a
\* poll which found the future pending.
C36_PollFirst ==
  /\ [][(exec.pc = "start" /\ exec'.pc # exec.pc) =>
          (exec'.pc = "poll" /\ exec'.result = "-")]_vars
  /\ [][(exec.pc = "poll" /\ exec'.pc # exec.pc) =>
          IF fut.state = "ready"
            THEN exec'.pc = "returned" /\ exec'.result = "Output"
            ELSE exec'.pc = "pending" /\ exec'.result = "-"]_vars
  /\ [][exec'.result # exec.result =>
          \/ exec.pc = "poll" /\ exec'.result = "Output"
          \/ exec.pc = "pending" /\ exec'.result = "TimedOut"]_vars
  /\ []((exec.timeout = Some(0) /\ exec.pc = "returned" /\ exec.result = "TimedOut") =>
          fut.waker)

\* a zero timeout, the deadline already behind, and the output of a future
\* that was ready at the first poll
C36_Witness ==
  /\ exec.timeout = Some(0)
  /\ exec.mode = "timeout"
  /\ exec.pc = "returned"
  /\ exec.result = "Output"
  /\ now > exec.deadline[1]
  /\ ~fut.waker
  /\ ~exec.immediate
  /\ ~exec.spurious

\* C20 as stated: a call of the executor from within the future it is
\* driving ends in a panic.
C20_RecursionFails ==
  [][(exec.depth = 1 /\ exec.result # "nested" /\ exec'.result = "nested") =>
       exec'.pc = "panicked"]_vars

(***************************************************************************)
(* Properties of bodies and builders                                       *)
(***************************************************************************)
\* the step clones the body
Cloned == seen'.clones = seen.clones + 1

\* the step pulls on the body
Pulled == seen'.pulls = seen.pulls + 1

\* the step clones the builder
Rebuilt == seen'.built = seen.built + 1

FixedCloneOk ==
  /\ seen'.clone.ok
  /\ seen'.clone.value.kind = "Bytes"
  /\ seen'.clone.value.body = obj.body

C22_FixedChunks ==
  [][Pulled /\ obj.kind = "Bytes" =>
       /\ seen'.last = IF seen.pulls = 0 /\ seen.made.body # <<>>
                         THEN Chunk(seen.made.body, Len(seen.made.body))
                         ELSE End
       /\ seen'.chunks = IF seen.made.body # <<>> THEN 1 ELSE 0]_vars

C22_Witness ==
  /\ obj.kind = "Bytes"
  /\ seen.made.body = <<7, 8>>
  /\ seen.op = "pull"
  /\ seen.pulls >= 2
  /\ seen.chunks = 1
  /\ seen.last = End

C24_NoChunkAfterEnd ==
  [][Pulled /\ obj.kind \in {"Bytes", "Reader"} /\ seen.closed => seen'.last = End]_vars

\* C29: RequestBuilder::try_clone succeeds when the request has no body or a
\* Fixed body, and the clone builds a request with the same method, URL and
\* headers (and the same body bytes); it fails when the body is a Reader or a
\* Stream; a builder holding an error fails to clone with that error.  The
\* builder itself is left as it was.
C29_BuilderClone ==
  [][Rebuilt =>
       LET held == build(builder)
           copy == seen'.copy
       IN  /\ builder' = builder
           /\ ~held.ok => ~copy.ok /\ copy.err = held.err
           /\ held.ok /\ held.req.body = None =>
                /\ copy.ok
                /\ build(copy.value).ok
                /\ build(copy.value).req.method = held.req.method
                /\ build(copy.value).req.url = held.req.url
                /\ build(copy.value).req.headers = held.req.headers
                /\ build(copy.value).req.body = None
           /\ held.ok /\ held.req.body # None /\ held.req.body[1].kind = "Bytes" =>
                /\ copy.ok
                /\ build(copy.value).ok
                /\ build(copy.value).req.method = held.req.method
                /\ build(copy.value).req.url = held.req.url
                /\ build(copy.value).req.headers = held.req.headers
                /\ build(copy.value).req.body # None
                /\ build(copy.value).req.body[1].body = held.req.body[1].body
           /\ held.ok /\ held.req.body # None /\ held.req.body[1].kind # "Bytes" =>
                ~copy.ok]_vars

C29_Witness ==
  /\ seen.op = "rebuild"
  /\ build(builder).ok
  /\ build(builder).req.method = "POST"
  /\ build(builder).req.body = Some(from_bytes(<<7, 8>>))
  /\ seen.copy.ok
  /\ build(seen.copy.value).req.headers = {<<"foo", "bar">>}

\* C28: the poll that ends the task with a Response gives it the URL of the
\* last exchange and moves the deadline, which has not elapsed, from the task
\* into the body of the Response; a pull on that body made after the deadline
\* elapsed yields the TimedOut body error, whatever the transport holds.
C28_ResponseDeadline ==
  [][/\ (task.output.kind = "Pending" /\ task'.output.kind = "Ok") =>
          /\ ~Resent
          /\ task'.output.url = task.in_flight.req.url
          /\ task.timeout \in {"none", "pending"}
          /\ task'.output.timeout = task.timeout
          /\ task'.timeout = "none"
          /\ obj'.kind = "Streaming"
          /\ obj'.timeout = task.timeout
     /\ (Pulled /\ obj.timeout = "elapsed") =>
          seen'.last = Fail(error_body("TimedOut"))
    ]_vars

C28_Witness ==
  /\ task.output.kind = "Ok"
  /\ task.output.timeout = "pending"
  /\ task.timeout = "none"
  /\ Followed = 1
  /\ task.output.url = task.in_flight.req.url
  /\ obj.timeout = "elapsed"
  /\ seen.op = "pull"
  /\ seen.last = Fail(error_body("TimedOut"))

\* the largest read a reader with that remaining length may be asked for
ReadLimit(remaining_len) ==
  IF remaining_len = None THEN 8192
  ELSE IF remaining_len[1] < 8192 THEN remaining_len[1] ELSE 8192

\* C32: a pull on a Reader body is one read of at most min(remaining length,
\* 8192) bytes, 8192 when the length is unknown; a read of zero bytes gives
\* end, a read of k bytes gives a chunk of k bytes and takes exactly k off
\* the known remaining length, a failed read gives a body error and leaves
\* the remaining length as it was; the remaining length is never negative
\* and, with the bytes delivered so far, adds up to the length supplied.
C32_ReaderAccounting ==
  /\ [](obj.kind = "Reader" /\ seen.made.remaining_len # None =>
          /\ obj.remaining_len # None
          /\ obj.remaining_len[1] >= 0
          /\ obj.remaining_len[1] + seen.emitted = seen.made.remaining_len[1])
  /\ [][Pulled /\ obj.kind = "Reader" =>
          /\ seen'.last.tag \in {"End", "Chunk", "Err"}
          /\ seen'.last.tag = "Chunk" =>
               /\ seen'.last.size >= 1
               /\ seen'.last.size <= ReadLimit(obj.remaining_len)
               /\ obj'.remaining_len =
                    (IF obj.remaining_len = None THEN None
                     ELSE Some(obj.remaining_len[1] - seen'.last.size))
          /\ seen'.last.tag = "End" => obj' = obj /\ seen'.emitted = seen.emitted
          /\ seen'.last.tag = "Err" =>
               /\ obj' = obj
               /\ seen'.last.err.kind = "Body"
       ]_vars

C32_Witness ==
  /\ obj.kind = "Reader"
  /\ seen.made.remaining_len = Some(8193)
  /\ seen.emitted = 8193
  /\ obj.remaining_len = Some(0)
  /\ seen.pulls = 3
  /\ seen.last = End

\* C40: a Request::try_clone that succeeds yields a request equal to the
\* original in method, URL, headers, timeout, body bytes and CORS-mode flag
\* and leaves the original unchanged; when the body cannot be cloned it fails
\* and the original is unchanged.
C40_CloneEqual ==
  [][Rebuilt /\ build(builder).ok =>
       /\ builder' = builder
       /\ seen'.copy.ok =>
            /\ build(seen'.copy.value).req.method = build(builder).req.method
            /\ build(seen'.copy.value).req.url = build(builder).req.url
            /\ build(seen'.copy.value).req.headers = build(builder).req.headers
            /\ build(seen'.copy.value).req.timeout = build(builder).req.timeout
            /\ build(seen'.copy.value).req.body = build(builder).req.body
            /\ build(seen'.copy.value).req.cors = build(builder).req.cors
    ]_vars

\* C33: once an operation has put the builder in the error state every later
\* operation leaves that error as it is; build returns that first error, a
\* Builder error, and send returns it without handing a request to the
\* client.
C33_FirstErrorLatched ==
  /\ [](~build(builder).ok /\ builder # NoBuilder =>
          /\ build(builder).err = seen.first_err
          /\ seen.first_err.kind = "Builder")
  /\ [][~build(builder).ok => builder' = builder]_vars
  /\ [](seen.op = "build" /\ ~build(builder).ok =>
          /\ ~seen.request.ok
          /\ seen.request.err = seen.first_err)
  /\ [](seen.op = "send" /\ ~build(builder).ok =>
          /\ ~seen.sent.executed
          /\ seen.sent.err = seen.first_err)

C33_Witness ==
  /\ seen.op = "send"
  /\ seen.first_err = error_builder("json")
  /\ seen.sent = [executed |-> FALSE, err |-> error_builder("json")]

====
